---- MODULE Spec2Model ----
(***************************************************************************)
(* State-machine model of the LayersControl overlay activation engine:     *)
(* StateService (part_003), BusinessLogicService, UIManager (part_002),    *)
(* LayersControl.  Every operation is a function from a snapshot of the    *)
(* program state (a record with one field per object field) to the next    *)
(* snapshot, so that nested calls compose as in the source.  Numbers with  *)
(* a fractional part are scaled: zoom levels are in thousandths            *)
(* (5.0 -> 5000, 9.999 -> 9999), opacities in tenths (1.0 -> 10).          *)
(***************************************************************************)
EXTENDS Integers, Sequences, FiniteSets, TLC

VARIABLES
    map,                  \* UIManager.map is set (control added to the map)
    zoom,                 \* map.getZoom(), thousandths
    state,                \* StateService._state
    options,              \* LayersControl.options (shared by all services)
    deckOverlay,          \* UIManager.deckOverlay and its committed layers
    deckLayers,           \* UIManager.deckLayers (layer id -> layer)
    overlayToLayerIds,    \* UIManager.overlayToLayerIds
    loadingStates,        \* UIManager.loadingStates
    errorStates,          \* UIManager.errorStates
    zoomFilteredOverlays, \* UIManager.zoomFilteredOverlays
    overlayCache,         \* UIManager.overlayCache
    pending,              \* onChecked invocations awaiting settlement
    styleQueue,           \* registered one-shot styledata continuations
    restoreTimers,        \* overlay ids whose activation _restoreMapState has scheduled
    persistenceKey,       \* StateService.persistenceKey is set
    _debounceTimer,       \* StateService._debounceTimer is armed
    storage,              \* localStorage item of the persistence key (<< >> if none)
    _events,              \* EventEmitter._events: event -> listeners in insertion order
    dispatch              \* what the last EventEmitter.emit did: calls made, exception raised

vars == << map, zoom, state, options, deckOverlay, deckLayers,
           overlayToLayerIds, loadingStates, errorStates,
           zoomFilteredOverlays, overlayCache, pending, styleQueue,
           restoreTimers, persistenceKey, _debounceTimer, storage, _events, dispatch >>

-----------------------------------------------------------------------------
(* Bounds of the model *)

MaxPending == 1
MaxStyleQueue == 1
MaxListeners == 3
MaxOverlays == 2

(* Absent values *)
Undefined == -1
NoId == "none"

-----------------------------------------------------------------------------
(* Configuration the control is constructed with *)

LayerCfg(id) == [id |-> id, type |-> "GeoJsonLayer"]

KnownLayerTypes == {"GeoJsonLayer", "ScatterplotLayer"}

(* An overlay configuration.  onChecked tells whether the overlay has a     *)
(* loader; onCheckedResults are the layer lists the loader may hand to     *)
(* setOverlayConfig before it resolves.                                    *)
NoFilter == [minZoom |-> Undefined, maxZoom |-> Undefined]

OverlayA ==
    [id |-> "a", group |-> NoId, onChecked |-> FALSE, onCheckedResults |-> {},
     hasDeckLayers |-> TRUE, deckLayers |-> << LayerCfg("a1"), LayerCfg("a2") >>,
     forcedBaseLayerId |-> NoId,
     filter |-> [minZoom |-> 5000, maxZoom |-> 10000],
     minZoomLevel |-> Undefined, maxZoomLevel |-> Undefined,
     defaultVisible |-> FALSE, defaultOpacity |-> 5]

OverlayB ==
    [id |-> "b", group |-> NoId, onChecked |-> TRUE,
     onCheckedResults |-> { << LayerCfg("b1") >>, << LayerCfg("b1"), LayerCfg("b2") >> },
     hasDeckLayers |-> FALSE, deckLayers |-> << >>,
     forcedBaseLayerId |-> NoId,
     filter |-> NoFilter,
     minZoomLevel |-> 5000, maxZoomLevel |-> Undefined,
     defaultVisible |-> FALSE, defaultOpacity |-> Undefined]

OverlayC ==
    [id |-> "c", group |-> "g", onChecked |-> FALSE, onCheckedResults |-> {},
     hasDeckLayers |-> TRUE, deckLayers |-> << LayerCfg("c1") >>,
     forcedBaseLayerId |-> "sat",
     filter |-> NoFilter,
     minZoomLevel |-> Undefined, maxZoomLevel |-> Undefined,
     defaultVisible |-> FALSE, defaultOpacity |-> Undefined]

OverlayD ==
    [id |-> "d", group |-> "g", onChecked |-> FALSE, onCheckedResults |-> {},
     hasDeckLayers |-> TRUE, deckLayers |-> << LayerCfg("d1") >>,
     forcedBaseLayerId |-> NoId,
     filter |-> NoFilter,
     minZoomLevel |-> Undefined, maxZoomLevel |-> Undefined,
     defaultVisible |-> FALSE, defaultOpacity |-> Undefined]

Osm == [id |-> "osm", style |-> TRUE]
Sat == [id |-> "sat", style |-> TRUE]

(* items another session may have left in localStorage; "ghost", "gone" *)
(* and "old" are ids that the configurations do not declare             *)
PersistedItems ==
    { << >>,
      << [base |-> "osm",
          overlays |-> << [id |-> "a", visible |-> TRUE, opacity |-> 7],
                          [id |-> "ghost", visible |-> TRUE, opacity |-> 10] >>,
          groups |-> [x \in {} |-> 0]] >>,
      << [base |-> "gone",
          overlays |-> << [id |-> "ghost", visible |-> TRUE, opacity |-> 10],
                          [id |-> "d", visible |-> TRUE, opacity |-> 3],
                          [id |-> "b", visible |-> TRUE, opacity |-> 10] >>,
          groups |-> [x \in {"g", "old"} |-> [visible |-> FALSE, opacity |-> 4]]] >> }

(* the overlay configurations a caller may pass to addOverlay: the *)
(* configured ones, "a" with other defaults and layers, and one    *)
(* that lacks the id                                               *)
AddedConfigs ==
    {OverlayA, OverlayB, OverlayC, OverlayD,
     [OverlayA EXCEPT !.defaultVisible = TRUE, !.defaultOpacity = 3,
                      !.deckLayers = << LayerCfg("a3") >>, !.filter = NoFilter],
     [OverlayD EXCEPT !.id = NoId]}

(* the options the control may be constructed with *)
Configurations ==
    { [overlays |-> << OverlayA, OverlayB >>, baseStyles |-> << Osm >>],
      [overlays |-> << OverlayC, OverlayD >>, baseStyles |-> << Osm, Sat >>] }

OverlayIds == {"a", "b", "c", "d"}
GroupIds == {"g"}
BaseIds == {"osm", "sat"}

(* Inputs of the environment *)
InitialZoom == 5000
OpacityInputs == {15}
CacheOps == {"none", "set"}

-----------------------------------------------------------------------------
(* Generic helpers for Array / Map / Object *)

Range(seq) == { seq[i] : i \in DOMAIN seq }

Ids(seq) == { seq[i].id : i \in DOMAIN seq }

IdList(seq) == [i \in DOMAIN seq |-> seq[i].id]

Has(seq, id) == \E i \in DOMAIN seq : seq[i].id = id

Find(seq, id) == seq[CHOOSE i \in DOMAIN seq : seq[i].id = id /\ \A j \in 1..(i-1) : seq[j].id # id]

EmptyMap == [x \in {} |-> 0]

FnSet(f, k, v) == [x \in (DOMAIN f) \cup {k} |-> IF x = k THEN v ELSE f[x]]

FnDelete(f, k) == [x \in (DOMAIN f) \ {k} |-> f[x]]

RECURSIVE MapDeleteAll(_, _)
MapDeleteAll(m, ids) ==
    IF ids = << >> THEN m
    ELSE MapDeleteAll(FnDelete(m, Head(ids)), Tail(ids))

NoDuplicates(seq) == \A i, j \in DOMAIN seq : seq[i] = seq[j] => i = j

-----------------------------------------------------------------------------
(* The snapshot of the program state.  Its field emitted collects, in     *)
(* order, the events an operation publishes through EventEmitter.emit.     *)

Cur ==
    [ map |-> map, zoom |-> zoom, state |-> state, options |-> options,
      deckOverlay |-> deckOverlay, deckLayers |-> deckLayers,
      overlayToLayerIds |-> overlayToLayerIds,
      loadingStates |-> loadingStates, errorStates |-> errorStates,
      zoomFilteredOverlays |-> zoomFilteredOverlays,
      overlayCache |-> overlayCache, pending |-> pending,
      styleQueue |-> styleQueue, restoreTimers |-> restoreTimers,
      persistenceKey |-> persistenceKey, _debounceTimer |-> _debounceTimer,
      storage |-> storage, emitted |-> << >> ]

Commit(r) ==
    /\ map' = r.map
    /\ zoom' = r.zoom
    /\ state' = r.state
    /\ options' = r.options
    /\ deckOverlay' = r.deckOverlay
    /\ deckLayers' = r.deckLayers
    /\ overlayToLayerIds' = r.overlayToLayerIds
    /\ loadingStates' = r.loadingStates
    /\ errorStates' = r.errorStates
    /\ zoomFilteredOverlays' = r.zoomFilteredOverlays
    /\ overlayCache' = r.overlayCache
    /\ pending' = r.pending
    /\ styleQueue' = r.styleQueue
    /\ restoreTimers' = r.restoreTimers
    /\ persistenceKey' = r.persistenceKey
    /\ _debounceTimer' = r._debounceTimer
    /\ storage' = r.storage
    /\ UNCHANGED << _events, dispatch >>

Within(r) ==
    /\ \A id \in OverlayIds : r.pending[<< id, TRUE >>] + r.pending[<< id, FALSE >>] <= MaxPending
    /\ Len(r.styleQueue) <= MaxStyleQueue

-----------------------------------------------------------------------------
(* EventEmitter *)

emit(s, ev) == [s EXCEPT !.emitted = Append(@, ev)]

(* Subscriptions.  A listener is a handler function (wrapper = 0) or the  *)
(* wrapper that once() built around it (wrapper > 0); the listeners of an *)
(* event are a Set, kept in insertion order.                              *)
Topics == {"change"}

Handlers == {"h1", "h2", "h3"}

Direct(h) == [h |-> h, wrapper |-> 0]

NoDispatch == [event |-> NoId, calls |-> << >>, thrown |-> FALSE]

on(events, event, listener) ==
    IF event \notin DOMAIN events THEN FnSet(events, event, << listener >>)
    ELSE IF listener \in Range(events[event]) THEN events
    ELSE FnSet(events, event, Append(events[event], listener))

off(events, event, listener) ==
    IF event \notin DOMAIN events THEN events
    ELSE LET left == SelectSeq(events[event], LAMBDA l : l # listener)
         IN IF left = << >> THEN FnDelete(events, event) ELSE FnSet(events, event, left)

(* the wrapper of once(): the smallest number no wrapper of h on the event has *)
NewWrapper(events, event, h) ==
    [h |-> h,
     wrapper |-> CHOOSE k \in 1..(MaxListeners + 1) :
                    /\ (event \notin DOMAIN events \/ [h |-> h, wrapper |-> k] \notin Range(events[event]))
                    /\ \A j \in 1..(k - 1) :
                          event \in DOMAIN events /\ [h |-> h, wrapper |-> j] \in Range(events[event])]

once(events, event, h) == on(events, event, NewWrapper(events, event, h))

removeAllListeners(events, event) ==
    IF event # NoId THEN FnDelete(events, event) ELSE EmptyMap

(* The handlers a client subscribes: h1 returns, h2 throws, h3 unsubscribes *)
(* h1 from the event and returns.                                           *)
Throws(h) == h = "h2"

Body(events, event, h) ==
    IF h = "h3" THEN off(events, event, Direct("h1")) ELSE events

(* calling a listener: a wrapper unsubscribes itself before it calls the handler *)
Call(events, event, listener) ==
    Body(IF listener.wrapper > 0 THEN off(events, event, listener) ELSE events,
         event, listener.h)

(* the for loop of emit over the snapshot Array.from(listeners); guarded *)
(* tells whether the call is inside try/catch                            *)
RECURSIVE Loop(_, _, _, _)
Loop(acc, event, snapshot, guarded) ==
    IF snapshot = << >> THEN acc
    ELSE LET l == Head(snapshot)
             called == [acc EXCEPT !.events = Call(@, event, l), !.calls = Append(@, l)]
         IN IF Throws(l.h) /\ ~guarded THEN [called EXCEPT !.thrown = TRUE]
            ELSE Loop(called, event, Tail(snapshot), guarded)

(* variant: the handler is called outside try/catch *)
EventEmitter_emit_NoCatch(events, event) ==
    IF event \notin DOMAIN events
    THEN [events |-> events, event |-> event, calls |-> << >>, thrown |-> FALSE]
    ELSE Loop([events |-> events, event |-> event, calls |-> << >>, thrown |-> FALSE],
              event, events[event], FALSE)

EventEmitter_emit(events, event) ==
    IF event \notin DOMAIN events
    THEN [events |-> events, event |-> event, calls |-> << >>, thrown |-> FALSE]
    ELSE Loop([events |-> events, event |-> event, calls |-> << >>, thrown |-> FALSE],
              event, events[event], TRUE)

-----------------------------------------------------------------------------
(* StateService *)

(* JSON.stringify(this._state) / JSON.parse: the fields the model keeps *)
Serialize(st) == [base |-> st.base, overlays |-> st.overlays, groups |-> st.groups]

_persist(s) ==
    IF ~s.persistenceKey THEN s
    ELSE [s EXCEPT !.storage = << Serialize(s.state) >>]

_schedulePersist(s) ==
    IF ~s.persistenceKey THEN s ELSE [s EXCEPT !._debounceTimer = TRUE]

_loadPersisted(s) ==
    IF ~s.persistenceKey \/ s.storage = << >> THEN s
    ELSE LET saved == s.storage[1]
         IN [s EXCEPT !.state = [base |-> saved.base, overlays |-> saved.overlays,
                                 groups |-> saved.groups]]

clearPersisted(s) ==
    IF ~s.persistenceKey THEN s
    ELSE emit(emit([s EXCEPT !.storage = << >>], [topic |-> "memorycleared"]),
              [topic |-> "change", type |-> "memorycleared"])

getCurrentBase(s) == s.state.base

getOverlayStates(s) == s.state.overlays

IsVisible(s, id) ==
    Has(getOverlayStates(s), id) /\ Find(getOverlayStates(s), id).visible

OpacityOf(s, id) ==
    IF Has(getOverlayStates(s), id) THEN Find(getOverlayStates(s), id).opacity ELSE 10

(* variant: no upper limit *)
Clamp_NoUpper(v) == IF v < 0 THEN 0 ELSE v

Clamp(v) == IF v < 0 THEN 0 ELSE IF v > 10 THEN 10 ELSE v

(* variant: the defaults replace a state that already exists *)
initOverlay_Overwrites(s, id, config) ==
    LET visible == config.defaultVisible = TRUE
        entry == [id |-> id, visible |-> visible,
                  opacity |-> IF config.defaultOpacity # Undefined
                              THEN config.defaultOpacity ELSE 10]
    IN [s EXCEPT !.state.overlays =
           IF Has(@, id) THEN [i \in DOMAIN @ |-> IF @[i].id = id THEN entry ELSE @[i]]
           ELSE Append(@, entry)]

initOverlay(s, id, config) ==
    IF Has(s.state.overlays, id) THEN s
    ELSE LET visible == config.defaultVisible = TRUE
             s1 == [s EXCEPT !.state.overlays = Append(@,
                       [id |-> id, visible |-> visible,
                        opacity |-> IF config.defaultOpacity # Undefined
                                    THEN config.defaultOpacity ELSE 10])]
         IN IF visible /\ config.group # NoId /\ config.group \notin DOMAIN s1.state.groups
            THEN [s1 EXCEPT !.state.groups = FnSet(@, config.group, [visible |-> TRUE, opacity |-> 10])]
            ELSE s1

setBase(s, baseId) ==
    LET prev == s.state.base
        s1 == _schedulePersist([s EXCEPT !.state.base = baseId])
    IN IF prev # baseId
       THEN emit(emit(s1, [topic |-> "basechange", id |-> baseId]),
                 [topic |-> "change", type |-> "basechange", id |-> baseId])
       ELSE s1

EnsureOverlayState(s, id) ==
    IF Has(s.state.overlays, id) THEN s
    ELSE [s EXCEPT !.state.overlays = Append(@, [id |-> id, visible |-> FALSE, opacity |-> 10])]

setOverlayVisibility(s, id, visible) ==
    LET s1 == EnsureOverlayState(s, id)
    IN _schedulePersist([s1 EXCEPT !.state.overlays =
           [i \in DOMAIN @ |-> IF @[i].id = id THEN [@[i] EXCEPT !.visible = visible] ELSE @[i]]])

StateSetOverlayOpacity(s, id, opacity) ==
    LET s1 == EnsureOverlayState(s, id)
    IN _schedulePersist([s1 EXCEPT !.state.overlays =
           [i \in DOMAIN @ |-> IF @[i].id = id THEN [@[i] EXCEPT !.opacity = Clamp(opacity)] ELSE @[i]]])

EnsureGroupState(s, id) ==
    IF id \in DOMAIN s.state.groups THEN s
    ELSE [s EXCEPT !.state.groups = FnSet(@, id, [visible |-> FALSE, opacity |-> 10])]

StateSetGroupVisibility(s, id, visible) ==
    _schedulePersist([EnsureGroupState(s, id) EXCEPT !.state.groups[id].visible = visible])

-----------------------------------------------------------------------------
(* UIManager: deck.gl overlay and status helpers *)

_initializeDeckOverlay(s) ==
    IF ~s.map \/ s.deckOverlay.exists THEN s
    ELSE [s EXCEPT !.deckOverlay = [exists |-> TRUE, layers |-> EmptyMap]]

_updateDeckOverlay(s) ==
    IF ~s.deckOverlay.exists THEN s
    ELSE [s EXCEPT !.deckOverlay.layers = s.deckLayers]

_setLoadingState(s, overlayId, isLoading) ==
    [s EXCEPT !.loadingStates = FnSet(@, overlayId, isLoading)]

IsLoading(s, id) == id \in DOMAIN s.loadingStates /\ s.loadingStates[id]

NullLayer == [id |-> NoId, opacity |-> Undefined]

_createDeckLayer(layerConfig, opacity) ==
    IF layerConfig.type \notin KnownLayerTypes THEN NullLayer
    ELSE [id |-> layerConfig.id, opacity |-> IF opacity # Undefined THEN opacity ELSE 10]

OwnedLayerIds(s, overlayId) ==
    IF overlayId \in DOMAIN s.overlayToLayerIds THEN s.overlayToLayerIds[overlayId] ELSE << >>

(* the forEach of _createAndStoreDeckLayers: acc = [layers, ids] *)
RECURSIVE CreateLoop(_, _, _)
CreateLoop(acc, cfgs, opacity) ==
    IF cfgs = << >> THEN acc
    ELSE LET layer == _createDeckLayer(Head(cfgs), opacity)
         IN CreateLoop(IF layer # NullLayer
                       THEN [layers |-> FnSet(acc.layers, layer.id, layer),
                             ids |-> Append(acc.ids, Head(cfgs).id)]
                       ELSE acc,
                       Tail(cfgs), opacity)

(* variant: the new ids are appended to the list already owned *)
_createAndStoreDeckLayers_Append(s, overlayId, overlay) ==
    LET existingLayerIds == OwnedLayerIds(s, overlayId)
        cleared == MapDeleteAll(s.deckLayers, existingLayerIds)
        opacity == OpacityOf(s, overlayId)
        made == CreateLoop([layers |-> cleared, ids |-> existingLayerIds], overlay.deckLayers, opacity)
    IN _updateDeckOverlay([s EXCEPT !.deckLayers = made.layers,
                                    !.overlayToLayerIds = FnSet(@, overlayId, made.ids)])

_createAndStoreDeckLayers(s, overlayId, overlay) ==
    LET existingLayerIds == OwnedLayerIds(s, overlayId)
        cleared == MapDeleteAll(s.deckLayers, existingLayerIds)
        opacity == OpacityOf(s, overlayId)
        made == CreateLoop([layers |-> cleared, ids |-> << >>], overlay.deckLayers, opacity)
    IN _updateDeckOverlay([s EXCEPT !.deckLayers = made.layers,
                                    !.overlayToLayerIds = FnSet(@, overlayId, made.ids)])

_showOverlayLayers(s, overlay) ==
    IF ~overlay.hasDeckLayers THEN s
    ELSE LET made == CreateLoop([layers |-> s.deckLayers, ids |-> << >>],
                                overlay.deckLayers, OpacityOf(s, overlay.id))
         IN _updateDeckOverlay([s EXCEPT !.deckLayers = made.layers])

_hideOverlayLayers(s, overlay) ==
    IF ~overlay.hasDeckLayers THEN s
    ELSE _updateDeckOverlay([s EXCEPT !.deckLayers = MapDeleteAll(@, IdList(overlay.deckLayers))])

(* variant: every live layer gets the new opacity *)
_updateOverlayOpacity_AllLayers(s, overlayId, opacity) ==
    IF overlayId \notin DOMAIN s.overlayToLayerIds THEN s
    ELSE _updateDeckOverlay([s EXCEPT !.deckLayers =
                [l \in DOMAIN @ |-> [@[l] EXCEPT !.opacity = opacity]]])

_updateOverlayOpacity(s, overlayId, opacity) ==
    IF overlayId \notin DOMAIN s.overlayToLayerIds THEN s
    ELSE LET layerIds == Range(s.overlayToLayerIds[overlayId])
         IN _updateDeckOverlay([s EXCEPT !.deckLayers =
                [l \in DOMAIN @ |-> IF l \in layerIds
                                    THEN [@[l] EXCEPT !.opacity = opacity] ELSE @[l]]])

(* variant: the whole registry is cleared instead of the owned ids *)
_deactivateOverlay_ClearAll(s, overlayId) ==
    LET s1 == IF overlayId \in DOMAIN s.overlayToLayerIds
              THEN [s EXCEPT !.deckLayers = EmptyMap,
                             !.overlayToLayerIds = FnDelete(@, overlayId)]
              ELSE s
        s2 == [s1 EXCEPT !.zoomFilteredOverlays = @ \ {overlayId}]
    IN _updateDeckOverlay(_setLoadingState(s2, overlayId, FALSE))

_deactivateOverlay(s, overlayId) ==
    LET s1 == IF overlayId \in DOMAIN s.overlayToLayerIds
              THEN [s EXCEPT !.deckLayers = MapDeleteAll(@, s.overlayToLayerIds[overlayId]),
                             !.overlayToLayerIds = FnDelete(@, overlayId)]
              ELSE s
        s2 == [s1 EXCEPT !.zoomFilteredOverlays = @ \ {overlayId}]
    IN _updateDeckOverlay(_setLoadingState(s2, overlayId, FALSE))

-----------------------------------------------------------------------------
(* UIManager: zoom filtering *)

_getFilterConfig(overlay) ==
    [minZoom |-> IF overlay.filter.minZoom # Undefined THEN overlay.filter.minZoom ELSE overlay.minZoomLevel,
     maxZoom |-> IF overlay.filter.maxZoom # Undefined THEN overlay.filter.maxZoom ELSE overlay.maxZoomLevel]

(* variant: the upper bound is inclusive *)
_checkZoomConstraints_MaxInclusive(s, overlay) ==
    IF ~s.map THEN TRUE
    ELSE LET currentZoom == s.zoom
             f == _getFilterConfig(overlay)
         IN IF f.minZoom # Undefined /\ currentZoom < f.minZoom THEN FALSE
            ELSE IF f.maxZoom # Undefined /\ currentZoom > f.maxZoom THEN FALSE
            ELSE TRUE

_checkZoomConstraints(s, overlay) ==
    IF ~s.map THEN TRUE
    ELSE LET currentZoom == s.zoom
             f == _getFilterConfig(overlay)
         IN IF f.minZoom # Undefined /\ currentZoom < f.minZoom THEN FALSE
            ELSE IF f.maxZoom # Undefined /\ currentZoom >= f.maxZoom THEN FALSE
            ELSE TRUE

_updateZoomFiltering(s, overlayId) ==
    IF ~Has(s.options.overlays, overlayId) THEN s
    ELSE IF _checkZoomConstraints(s, Find(s.options.overlays, overlayId))
         THEN [s EXCEPT !.zoomFilteredOverlays = @ \ {overlayId}]
         ELSE [s EXCEPT !.zoomFilteredOverlays = @ \cup {overlayId}]

(* the body of the forEach of updateAllZoomFiltering *)
(* variant: the visible flag of the overlay is not consulted *)
ZoomFilterOne_IgnoresVisible(s, overlayId) ==
    IF ~Has(s.options.overlays, overlayId) THEN s
    ELSE LET overlay == Find(s.options.overlays, overlayId)
             shouldBeVisible == _checkZoomConstraints(s, overlay)
             isCurrentlyFiltered == overlayId \in s.zoomFilteredOverlays
         IN IF shouldBeVisible /\ isCurrentlyFiltered
            THEN emit(_showOverlayLayers([s EXCEPT !.zoomFilteredOverlays = @ \ {overlayId}], overlay),
                      [topic |-> "zoomfilter", id |-> overlayId, filtered |-> FALSE])
            ELSE IF ~shouldBeVisible /\ ~isCurrentlyFiltered
            THEN emit(_hideOverlayLayers([s EXCEPT !.zoomFilteredOverlays = @ \cup {overlayId}], overlay),
                      [topic |-> "zoomfilter", id |-> overlayId, filtered |-> TRUE])
            ELSE s

ZoomFilterOne(s, overlayId) ==
    IF ~IsVisible(s, overlayId) \/ ~Has(s.options.overlays, overlayId) THEN s
    ELSE LET overlay == Find(s.options.overlays, overlayId)
             shouldBeVisible == _checkZoomConstraints(s, overlay)
             isCurrentlyFiltered == overlayId \in s.zoomFilteredOverlays
         IN IF shouldBeVisible /\ isCurrentlyFiltered
            THEN emit(_showOverlayLayers([s EXCEPT !.zoomFilteredOverlays = @ \ {overlayId}], overlay),
                      [topic |-> "zoomfilter", id |-> overlayId, filtered |-> FALSE])
            ELSE IF ~shouldBeVisible /\ ~isCurrentlyFiltered
            THEN emit(_hideOverlayLayers([s EXCEPT !.zoomFilteredOverlays = @ \cup {overlayId}], overlay),
                      [topic |-> "zoomfilter", id |-> overlayId, filtered |-> TRUE])
            ELSE s

RECURSIVE ZoomFilterLoop(_, _)
ZoomFilterLoop(s, ids) ==
    IF ids = << >> THEN s
    ELSE ZoomFilterLoop(ZoomFilterOne(s, Head(ids)), Tail(ids))

updateAllZoomFiltering(s) ==
    IF ~s.map THEN s
    ELSE ZoomFilterLoop(s, IdList(getOverlayStates(s)))

-----------------------------------------------------------------------------
(* Base style switch *)

_applyBaseToMap(s, baseId) ==
    IF ~s.map THEN s
    ELSE IF ~Has(s.options.baseStyles, baseId) \/ ~Find(s.options.baseStyles, baseId).style THEN s
    ELSE [s EXCEPT !.deckOverlay = [exists |-> FALSE, layers |-> EmptyMap],
                   !.deckLayers = EmptyMap,
                   !.overlayToLayerIds = EmptyMap,
                   !.styleQueue = Append(@, baseId)]

setBaseLayer(s, baseId) ==
    IF ~Has(s.options.baseStyles, baseId) THEN s
    ELSE _applyBaseToMap(setBase(s, baseId), baseId)

-----------------------------------------------------------------------------
(* Overlay activation.  thenEmit tells whether the caller (showOverlay with *)
(* fireCallback) awaits the returned promise to emit overlaychange.         *)

ForcedBaseApplies(s, overlay, isUserInteraction) ==
    /\ isUserInteraction
    /\ overlay.forcedBaseLayerId # NoId
    /\ getCurrentBase(s) # overlay.forcedBaseLayerId

(* variant: an overlay with a cache entry is not loaded again *)
_executeOnChecked_CacheSkips(s, overlayId, thenEmit) ==
    IF overlayId \in DOMAIN s.overlayCache THEN s
    ELSE LET s1 == emit(s, [topic |-> "loading", id |-> overlayId])
         IN [s1 EXCEPT !.pending[<< overlayId, thenEmit >>] = @ + 1]

_executeOnChecked(s, overlayId, thenEmit) ==
    LET s1 == emit(s, [topic |-> "loading", id |-> overlayId])
    IN [s1 EXCEPT !.pending[<< overlayId, thenEmit >>] = @ + 1]

(* lines 684-695: what follows the onChecked step *)
AfterOnChecked(s, overlayId) ==
    LET s1 == IF Has(s.options.overlays, overlayId)
                 /\ Find(s.options.overlays, overlayId).hasDeckLayers
              THEN _createAndStoreDeckLayers(s, overlayId, Find(s.options.overlays, overlayId))
              ELSE s
        s2 == _setLoadingState(s1, overlayId, FALSE)
    IN [s2 EXCEPT !.errorStates = FnDelete(@, overlayId)]

(* variant: after the forced base switch the call goes on to build layers *)
_activateOverlay_ForcedContinues(s, overlayId, isUserInteraction, thenEmit) ==
    IF ~s.map THEN s
    ELSE LET s0 == _initializeDeckOverlay(s)
         IN IF ~s0.deckOverlay.exists \/ ~Has(s0.options.overlays, overlayId) THEN s0
            ELSE LET overlay == Find(s0.options.overlays, overlayId)
                     s1 == _setLoadingState(s0, overlayId, TRUE)
                     sb == IF ForcedBaseApplies(s1, overlay, isUserInteraction)
                           THEN setBaseLayer(s1, overlay.forcedBaseLayerId) ELSE s1
                     s2 == _updateZoomFiltering(sb, overlayId)
                 IN IF overlayId \in s2.zoomFilteredOverlays
                    THEN emit(_setLoadingState(s2, overlayId, FALSE),
                              [topic |-> "zoomfilter", id |-> overlayId, filtered |-> TRUE])
                    ELSE IF overlay.onChecked
                    THEN _executeOnChecked(s2, overlayId, thenEmit)
                    ELSE AfterOnChecked(s2, overlayId)

(* variant: the zoom check marks the overlay but does not return early *)
_activateOverlay_NoZoomReturn(s, overlayId, isUserInteraction, thenEmit) ==
    IF ~s.map THEN s
    ELSE LET s0 == _initializeDeckOverlay(s)
         IN IF ~s0.deckOverlay.exists \/ ~Has(s0.options.overlays, overlayId) THEN s0
            ELSE LET overlay == Find(s0.options.overlays, overlayId)
                     s1 == _setLoadingState(s0, overlayId, TRUE)
                 IN IF ForcedBaseApplies(s1, overlay, isUserInteraction)
                    THEN _setLoadingState(setBaseLayer(s1, overlay.forcedBaseLayerId), overlayId, FALSE)
                    ELSE LET s2 == _updateZoomFiltering(s1, overlayId)
                             s3 == IF overlayId \in s2.zoomFilteredOverlays
                                   THEN emit(s2, [topic |-> "zoomfilter", id |-> overlayId, filtered |-> TRUE])
                                   ELSE s2
                         IN IF overlay.onChecked
                            THEN _executeOnChecked(s3, overlayId, thenEmit)
                            ELSE AfterOnChecked(s3, overlayId)

_activateOverlay(s, overlayId, isUserInteraction, thenEmit) ==
    IF ~s.map THEN s
    ELSE LET s0 == _initializeDeckOverlay(s)
         IN IF ~s0.deckOverlay.exists \/ ~Has(s0.options.overlays, overlayId) THEN s0
            ELSE LET overlay == Find(s0.options.overlays, overlayId)
                     s1 == _setLoadingState(s0, overlayId, TRUE)
                 IN IF ForcedBaseApplies(s1, overlay, isUserInteraction)
                    THEN _setLoadingState(setBaseLayer(s1, overlay.forcedBaseLayerId), overlayId, FALSE)
                    ELSE LET s2 == _updateZoomFiltering(s1, overlayId)
                         IN IF overlayId \in s2.zoomFilteredOverlays
                            THEN emit(_setLoadingState(s2, overlayId, FALSE),
                                      [topic |-> "zoomfilter", id |-> overlayId, filtered |-> TRUE])
                            ELSE IF overlay.onChecked
                            THEN _executeOnChecked(s2, overlayId, thenEmit)
                            ELSE AfterOnChecked(s2, overlayId)

(* the call suspends at the await of onChecked *)
ActivationAwaits(s, overlayId, isUserInteraction) ==
    /\ s.map
    /\ Has(s.options.overlays, overlayId)
    /\ LET overlay == Find(s.options.overlays, overlayId)
       IN /\ ~ForcedBaseApplies(s, overlay, isUserInteraction)
          /\ _checkZoomConstraints(s, overlay)
          /\ overlay.onChecked

-----------------------------------------------------------------------------
(* BusinessLogicService *)

OverlayChange(s, id, visible) ==
    emit(emit(s, [topic |-> "overlaychange", id |-> id, visible |-> visible, opacity |-> OpacityOf(s, id)]),
         [topic |-> "change", type |-> "overlaychange", id |-> id, visible |-> visible,
          opacity |-> OpacityOf(s, id)])

(* variant: no early return for an overlay that is already visible *)
showOverlay_NoGuard(s, id, fireCallback) ==
    LET s1 == setOverlayVisibility(s, id, TRUE)
        s2 == _activateOverlay(s1, id, fireCallback, fireCallback)
    IN IF fireCallback /\ ~ActivationAwaits(s1, id, fireCallback)
       THEN OverlayChange(s2, id, TRUE)
       ELSE s2

showOverlay(s, id, fireCallback) ==
    IF IsVisible(s, id) THEN s
    ELSE LET s1 == setOverlayVisibility(s, id, TRUE)
             s2 == _activateOverlay(s1, id, fireCallback, fireCallback)
         IN IF fireCallback /\ ~ActivationAwaits(s1, id, fireCallback)
            THEN OverlayChange(s2, id, TRUE)
            ELSE s2

(* variant: no early return for an overlay that is already hidden *)
hideOverlay_NoGuard(s, id, fireCallback) ==
    LET s1 == setOverlayVisibility(s, id, FALSE)
        s2 == _deactivateOverlay(s1, id)
    IN IF fireCallback THEN OverlayChange(s2, id, FALSE) ELSE s2

hideOverlay(s, id, fireCallback) ==
    IF ~IsVisible(s, id) THEN s
    ELSE LET s1 == setOverlayVisibility(s, id, FALSE)
             s2 == _deactivateOverlay(s1, id)
         IN IF fireCallback THEN OverlayChange(s2, id, FALSE) ELSE s2

setOverlayOpacity(s, id, value) ==
    LET clamped == Clamp(value)
        s1 == StateSetOverlayOpacity(s, id, clamped)
        s2 == IF IsVisible(s1, id) THEN _updateOverlayOpacity(s1, id, clamped) ELSE s1
    IN emit(emit(s2, [topic |-> "overlaychange", id |-> id, visible |-> IsVisible(s1, id), opacity |-> clamped]),
            [topic |-> "change", type |-> "overlaychange", id |-> id, visible |-> IsVisible(s1, id),
             opacity |-> clamped])

OverlaysInGroup(s, id) == SelectSeq(s.options.overlays, LAMBDA o : o.group = id)

RECURSIVE GroupOnLoop(_, _, _)
GroupOnLoop(s, members, anyIndividuallyVisible) ==
    IF members = << >> THEN s
    ELSE LET oid == Head(members).id
             s1 == IF ~anyIndividuallyVisible THEN setOverlayVisibility(s, oid, TRUE) ELSE s
             s2 == IF IsVisible(s1, oid) THEN _activateOverlay(s1, oid, FALSE, FALSE) ELSE s1
         IN GroupOnLoop(s2, Tail(members), anyIndividuallyVisible)

RECURSIVE GroupOffLoop(_, _)
GroupOffLoop(s, members) ==
    IF members = << >> THEN s
    ELSE GroupOffLoop(_deactivateOverlay(setOverlayVisibility(s, Head(members).id, FALSE),
                                         Head(members).id),
                      Tail(members))

(* variant: turning a group off leaves its members as they are *)
setGroupVisibility_OffSkipsMembers(s, id, visible) ==
    LET s1 == StateSetGroupVisibility(s, id, visible)
        overlaysInGroup == OverlaysInGroup(s1, id)
        anyIndividuallyVisible == \E i \in DOMAIN overlaysInGroup : IsVisible(s1, overlaysInGroup[i].id)
        s2 == IF visible THEN GroupOnLoop(s1, overlaysInGroup, anyIndividuallyVisible)
              ELSE s1
    IN emit(emit(s2, [topic |-> "overlaygroupchange", id |-> id, visible |-> visible]),
            [topic |-> "change", type |-> "overlaygroupchange", id |-> id, visible |-> visible])

(* variant: turning a group on always makes every member visible *)
setGroupVisibility_AlwaysAll(s, id, visible) ==
    LET s1 == StateSetGroupVisibility(s, id, visible)
        overlaysInGroup == OverlaysInGroup(s1, id)
        s2 == IF visible THEN GroupOnLoop(s1, overlaysInGroup, FALSE)
              ELSE GroupOffLoop(s1, overlaysInGroup)
    IN emit(emit(s2, [topic |-> "overlaygroupchange", id |-> id, visible |-> visible]),
            [topic |-> "change", type |-> "overlaygroupchange", id |-> id, visible |-> visible])

setGroupVisibility(s, id, visible) ==
    LET s1 == StateSetGroupVisibility(s, id, visible)
        overlaysInGroup == OverlaysInGroup(s1, id)
        anyIndividuallyVisible == \E i \in DOMAIN overlaysInGroup : IsVisible(s1, overlaysInGroup[i].id)
        s2 == IF visible THEN GroupOnLoop(s1, overlaysInGroup, anyIndividuallyVisible)
              ELSE GroupOffLoop(s1, overlaysInGroup)
    IN emit(emit(s2, [topic |-> "overlaygroupchange", id |-> id, visible |-> visible]),
            [topic |-> "change", type |-> "overlaygroupchange", id |-> id, visible |-> visible])

-----------------------------------------------------------------------------
(* Settlement of an onChecked promise and the style-ready continuation *)

setOverlayConfig(s, overlayId, newConfig) ==
    IF ~Has(s.options.overlays, overlayId) \/ ~newConfig.inject THEN s
    ELSE [s EXCEPT !.options.overlays =
             [i \in DOMAIN @ |-> IF @[i].id = overlayId
                                 THEN [@[i] EXCEPT !.hasDeckLayers = TRUE, !.deckLayers = newConfig.layers]
                                 ELSE @[i]]]

CacheApply(s, overlayId, op) ==
    IF op = "set" THEN [s EXCEPT !.overlayCache = FnSet(@, overlayId, "loaded")]
    ELSE IF op = "clear" THEN [s EXCEPT !.overlayCache = FnDelete(@, overlayId)]
    ELSE s

OnCheckedResolved(s, overlayId, thenEmit, newConfig, cacheOp) ==
    LET s0 == [s EXCEPT !.pending[<< overlayId, thenEmit >>] = @ - 1]
        s1 == CacheApply(setOverlayConfig(s0, overlayId, newConfig), overlayId, cacheOp)
        s2 == emit(s1, [topic |-> "success", id |-> overlayId])
        s3 == AfterOnChecked(s2, overlayId)
    IN IF thenEmit THEN OverlayChange(s3, overlayId, TRUE) ELSE s3

(* variant: after the error the activation goes on to build the layers *)
OnCheckedRejected_Proceeds(s, overlayId, thenEmit) ==
    LET s0 == [s EXCEPT !.pending[<< overlayId, thenEmit >>] = @ - 1]
        s1 == emit(s0, [topic |-> "error", id |-> overlayId, error |-> "boom"])
        s2 == AfterOnChecked(s1, overlayId)
        s3 == [s2 EXCEPT !.errorStates = FnSet(@, overlayId, "boom")]
        s4 == emit(s3, [topic |-> "error", id |-> overlayId, error |-> "boom"])
    IN IF thenEmit THEN OverlayChange(s4, overlayId, TRUE) ELSE s4

OnCheckedRejected(s, overlayId, thenEmit) ==
    LET s0 == [s EXCEPT !.pending[<< overlayId, thenEmit >>] = @ - 1]
        s1 == emit(s0, [topic |-> "error", id |-> overlayId, error |-> "boom"])
        s2 == _setLoadingState(s1, overlayId, FALSE)
        s3 == [s2 EXCEPT !.errorStates = FnSet(@, overlayId, "boom")]
        s4 == emit(s3, [topic |-> "error", id |-> overlayId, error |-> "boom"])
    IN IF thenEmit THEN OverlayChange(s4, overlayId, TRUE) ELSE s4

RECURSIVE RestoreLoop(_, _)
RestoreLoop(s, ids) ==
    IF ids = << >> THEN s
    ELSE RestoreLoop(IF IsVisible(s, Head(ids)) THEN _activateOverlay(s, Head(ids), FALSE, FALSE) ELSE s,
                     Tail(ids))

(* variant: styleload is published before the visible overlays are restored *)
StyleDataContinuation_EmitsFirst(s) ==
    LET baseId == Head(s.styleQueue)
        s0 == [s EXCEPT !.styleQueue = Tail(@)]
        s1 == _initializeDeckOverlay(s0)
        s2 == emit(emit(s1, [topic |-> "styleload", baseId |-> baseId]),
                   [topic |-> "change", type |-> "styleload", baseId |-> baseId])
    IN RestoreLoop(s2, IdList(getOverlayStates(s2)))

StyleDataContinuation(s) ==
    LET baseId == Head(s.styleQueue)
        s0 == [s EXCEPT !.styleQueue = Tail(@)]
        s1 == _initializeDeckOverlay(s0)
        s2 == RestoreLoop(s1, IdList(getOverlayStates(s1)))
    IN emit(emit(s2, [topic |-> "styleload", baseId |-> baseId]),
            [topic |-> "change", type |-> "styleload", baseId |-> baseId])

-----------------------------------------------------------------------------
(* LayersControl.onAdd *)

(* StateService.setGroupOpacity, StateService.removeOverlay *)
StateSetGroupOpacity(s, id, opacity) ==
    _schedulePersist([EnsureGroupState(s, id) EXCEPT !.state.groups[id].opacity = Clamp(opacity)])

StateRemoveOverlay(s, id) ==
    _schedulePersist([s EXCEPT !.state.overlays = SelectSeq(@, LAMBDA o : o.id # id)])

(* UIManager.setErrorState(id, null) *)
ClearErrorState(s, overlayId) == [s EXCEPT !.errorStates = FnDelete(@, overlayId)]

(* BusinessLogicService.setGroupOpacity, BusinessLogicService.removeOverlay *)
RECURSIVE GroupOpacityLoop(_, _, _)
GroupOpacityLoop(s, members, clamped) ==
    IF members = << >> THEN s
    ELSE LET oid == Head(members).id
             s1 == StateSetOverlayOpacity(s, oid, clamped)
             s2 == IF IsVisible(s1, oid) THEN _updateOverlayOpacity(s1, oid, clamped) ELSE s1
         IN GroupOpacityLoop(s2, Tail(members), clamped)

setGroupOpacity(s, id, value) ==
    LET clamped == Clamp(value)
        s1 == StateSetGroupOpacity(s, id, clamped)
    IN GroupOpacityLoop(s1, OverlaysInGroup(s1, id), clamped)

removeOverlay(s, id, fireCallback) ==
    LET s1 == ClearErrorState(_setLoadingState(_deactivateOverlay(s, id), id, FALSE), id)
        s2 == StateRemoveOverlay(s1, id)
    IN IF fireCallback
       THEN emit(s2, [topic |-> "overlaychange", id |-> id, visible |-> FALSE, opacity |-> 10])
       ELSE s2

addOverlay(s, config, fireCallback) ==
    LET s1 == initOverlay(s, config.id, config)
        s2 == IF IsVisible(s1, config.id) THEN _activateOverlay(s1, config.id, FALSE, FALSE) ELSE s1
    IN IF fireCallback
       THEN emit(s2, [topic |-> "overlaychange", id |-> config.id,
                      visible |-> IsVisible(s1, config.id), opacity |-> OpacityOf(s1, config.id)])
       ELSE s2

(* The public API of LayersControl: ret is the value returned, st the      *)
(* state the call leaves.                                                  *)
Refused(s) == [ret |-> FALSE, threw |-> FALSE, st |-> s]

Done(s) == [ret |-> TRUE, threw |-> FALSE, st |-> s]

(* the call throws an Error to its caller *)
Thrown(s) == [ret |-> FALSE, threw |-> TRUE, st |-> s]

(* { ...old, ...new } *)
Merge(old, new) ==
    [f \in DOMAIN old \cup DOMAIN new |-> IF f \in DOMAIN new THEN new[f] ELSE old[f]]

HasGroup(s, id) == \E i \in DOMAIN s.options.overlays : s.options.overlays[i].group = id

LayersControl_setBaseLayer(s, id) ==
    IF ~Has(s.options.baseStyles, id) THEN Refused(s) ELSE Done(setBaseLayer(s, id))

LayersControl_removeBaseStyle(s, id) ==
    IF id = NoId \/ ~Has(s.options.baseStyles, id) THEN Refused(s)
    ELSE LET wasActive == getCurrentBase(s) = id
             s1 == [s EXCEPT !.options.baseStyles = SelectSeq(@, LAMBDA b : b.id # id)]
         IN Done(IF wasActive /\ Len(s1.options.baseStyles) > 0
                 THEN setBaseLayer(s1, s1.options.baseStyles[1].id)
                 ELSE s1)

(* variant: the id is not looked up in the configuration *)
LayersControl_showOverlay_NoLookup(s, id, fireCallback) ==
    Done(showOverlay(s, id, fireCallback))

LayersControl_showOverlay(s, id, fireCallback) ==
    IF ~Has(s.options.overlays, id) THEN Refused(s) ELSE Done(showOverlay(s, id, fireCallback))

LayersControl_hideOverlay(s, id, fireCallback) ==
    IF ~Has(s.options.overlays, id) THEN Refused(s) ELSE Done(hideOverlay(s, id, fireCallback))

LayersControl_setOverlayOpacity(s, id, value) ==
    IF ~Has(s.options.overlays, id) THEN Refused(s) ELSE Done(setOverlayOpacity(s, id, value))

LayersControl_removeOverlay(s, id, fireCallback) ==
    IF ~Has(s.options.overlays, id) THEN Refused(s)
    ELSE LET s1 == removeOverlay(s, id, fireCallback)
         IN Done([s1 EXCEPT !.options.overlays = SelectSeq(@, LAMBDA o : o.id # id)])

(* variant: a configuration without id is added like any other *)
LayersControl_addOverlay_NoIdCheck(s, overlayConfig, fireCallback) ==
    LET s1 == [s EXCEPT !.options.overlays = Append(@, overlayConfig)]
    IN Done(addOverlay(s1, overlayConfig, fireCallback))

LayersControl_addOverlay(s, overlayConfig, fireCallback) ==
    IF overlayConfig.id = NoId THEN Thrown(s)
    ELSE LET idx == { i \in DOMAIN s.options.overlays : s.options.overlays[i].id = overlayConfig.id }
             first == CHOOSE i \in idx : \A j \in idx : i <= j
             s1 == [s EXCEPT !.options.overlays =
                       IF idx # {}
                       THEN [@ EXCEPT ![first] = Merge(@, overlayConfig)]
                       ELSE Append(@, overlayConfig)]
         IN Done(addOverlay(s1, overlayConfig, fireCallback))

(* LayersControl.constructor: options.baseStyles and options.overlays are *)
(* given as [isArray, items]; the result tells whether it threw and the   *)
(* options the control holds                                              *)
LayersControl_constructor(given) ==
    IF ~given.baseStyles.isArray \/ ~given.overlays.isArray
    THEN [threw |-> TRUE, options |-> [overlays |-> << >>, baseStyles |-> << >>]]
    ELSE [threw |-> FALSE,
          options |-> [overlays |-> given.overlays.items, baseStyles |-> given.baseStyles.items]]

LayersControl_showGroup(s, id) ==
    IF ~HasGroup(s, id) THEN Refused(s) ELSE Done(setGroupVisibility(s, id, TRUE))

LayersControl_hideGroup(s, id) ==
    IF ~HasGroup(s, id) THEN Refused(s) ELSE Done(setGroupVisibility(s, id, FALSE))

LayersControl_setGroupOpacity(s, id, value) ==
    IF ~HasGroup(s, id) THEN Refused(s) ELSE Done(setGroupOpacity(s, id, value))

RECURSIVE InitLoop(_, _)
InitLoop(s, cfgs) ==
    IF cfgs = << >> THEN s
    ELSE InitLoop(initOverlay(s, Head(cfgs).id, Head(cfgs)), Tail(cfgs))

(* ids of the visible overlay states, in Object.entries order *)
VisibleIds(s) == IdList(SelectSeq(s.state.overlays, LAMBDA o : o.visible))

(* variant: the manual restore is scheduled also after a base reload *)
_restoreMapState_AlwaysManual(s) ==
    LET savedBase == getCurrentBase(s)
        exists == Has(s.options.baseStyles, savedBase)
        s1 == IF savedBase = NoId THEN s
              ELSE IF exists THEN setBaseLayer(s, savedBase)
              ELSE IF Len(s.options.baseStyles) > 0
                   THEN setBase(s, s.options.baseStyles[1].id)
                   ELSE s
    IN [s1 EXCEPT !.restoreTimers = @ \o VisibleIds(s1)]

_restoreMapState(s) ==
    LET savedBase == getCurrentBase(s)
        exists == Has(s.options.baseStyles, savedBase)
        s1 == IF savedBase = NoId THEN s
              ELSE IF exists THEN setBaseLayer(s, savedBase)
              ELSE IF Len(s.options.baseStyles) > 0
                   THEN setBase(s, s.options.baseStyles[1].id)
                   ELSE s
    IN IF savedBase # NoId /\ exists THEN s1
       ELSE [s1 EXCEPT !.restoreTimers = @ \o VisibleIds(s1)]

onAdd(s) ==
    LET s1 == _initializeDeckOverlay([s EXCEPT !.map = TRUE])
        s2 == InitLoop(s1, s1.options.overlays)
        s3 == IF getCurrentBase(s2) = NoId /\ Len(s2.options.baseStyles) > 0
              THEN setBase(s2, s2.options.baseStyles[1].id) ELSE s2
    IN _restoreMapState(s3)

-----------------------------------------------------------------------------
(* The state machine *)

Init ==
    /\ map = FALSE
    /\ zoom = InitialZoom
    /\ state = [base |-> NoId, overlays |-> << >>, groups |-> EmptyMap]
    /\ options \in Configurations
    /\ deckOverlay = [exists |-> FALSE, layers |-> EmptyMap]
    /\ deckLayers = EmptyMap
    /\ overlayToLayerIds = EmptyMap
    /\ loadingStates = EmptyMap
    /\ errorStates = EmptyMap
    /\ zoomFilteredOverlays = {}
    /\ overlayCache = EmptyMap
    /\ pending = [k \in OverlayIds \X BOOLEAN |-> 0]
    /\ styleQueue = << >>
    /\ restoreTimers = << >>
    /\ persistenceKey = FALSE
    /\ _debounceTimer = FALSE
    /\ storage = << >>
    /\ _events = EmptyMap
    /\ dispatch = NoDispatch

(* a control constructed with a persistence key: the StateService *)
(* constructor has read the stored item                           *)
InitPersist ==
    /\ map = FALSE
    /\ zoom = InitialZoom
    /\ options \in Configurations
    /\ storage \in PersistedItems
    /\ persistenceKey = TRUE
    /\ state = _loadPersisted([state |-> [base |-> NoId, overlays |-> << >>, groups |-> EmptyMap],
                               storage |-> storage, persistenceKey |-> TRUE]).state
    /\ _debounceTimer = FALSE
    /\ restoreTimers = << >>
    /\ deckOverlay = [exists |-> FALSE, layers |-> EmptyMap]
    /\ deckLayers = EmptyMap
    /\ overlayToLayerIds = EmptyMap
    /\ loadingStates = EmptyMap
    /\ errorStates = EmptyMap
    /\ zoomFilteredOverlays = {}
    /\ overlayCache = EmptyMap
    /\ pending = [k \in OverlayIds \X BOOLEAN |-> 0]
    /\ styleQueue = << >>
    /\ _events = EmptyMap
    /\ dispatch = NoDispatch

Step(r) == Within(r) /\ Commit(r)

OnAdd ==
    /\ ~map
    /\ Step(onAdd(Cur))

ShowOverlay(id, fireCallback) ==
    /\ map
    /\ Step(LayersControl_showOverlay(Cur, id, fireCallback).st)

HideOverlay(id, fireCallback) ==
    /\ map
    /\ Step(LayersControl_hideOverlay(Cur, id, fireCallback).st)

ActivateOverlay(id, isUserInteraction) ==
    /\ map
    /\ IsVisible(Cur, id)
    /\ Step(_activateOverlay(Cur, id, isUserInteraction, FALSE))

SetOverlayOpacity(id, value) ==
    /\ map
    /\ Step(LayersControl_setOverlayOpacity(Cur, id, value).st)

SetGroupVisibility(id, visible) ==
    /\ map
    /\ Step(IF visible THEN LayersControl_showGroup(Cur, id).st
                        ELSE LayersControl_hideGroup(Cur, id).st)

SetBaseLayer(baseId) ==
    /\ map
    /\ Step(LayersControl_setBaseLayer(Cur, baseId).st)

SetGroupOpacity(id, value) ==
    /\ map
    /\ Step(LayersControl_setGroupOpacity(Cur, id, value).st)

StyleReady ==
    /\ map
    /\ styleQueue # << >>
    /\ Step(StyleDataContinuation(Cur))

ZoomEnd(z) ==
    /\ map
    /\ Step(updateAllZoomFiltering([Cur EXCEPT !.zoom = z]))

LoaderResolve(id, thenEmit, newConfig, cacheOp) ==
    /\ Has(options.overlays, id)
    /\ pending[<< id, thenEmit >>] > 0
    /\ Step(OnCheckedResolved(Cur, id, thenEmit, newConfig, cacheOp))

LoaderReject(id, thenEmit) ==
    /\ pending[<< id, thenEmit >>] > 0
    /\ Step(OnCheckedRejected(Cur, id, thenEmit))

(* what the loader of an overlay may have done when it resolves *)
LoaderResults(overlay) ==
    { [inject |-> FALSE, layers |-> << >>] } \cup
    { [inject |-> TRUE, layers |-> l] : l \in overlay.onCheckedResults }

(* the zoom levels at the boundaries of the configured ranges *)
ZoomLevels ==
    {InitialZoom} \cup
    UNION { LET f == _getFilterConfig(options.overlays[i])
            IN (IF f.minZoom # Undefined THEN {f.minZoom - 1, f.minZoom} ELSE {}) \cup
               (IF f.maxZoom # Undefined THEN {f.maxZoom - 1, f.maxZoom} ELSE {})
            : i \in DOMAIN options.overlays }

(* the 200 ms timer of _restoreMapState for one overlay *)
RestoreTimer ==
    /\ restoreTimers # << >>
    /\ Step(_activateOverlay([Cur EXCEPT !.restoreTimers = Tail(@)], Head(restoreTimers), FALSE, FALSE))

(* the 300 ms debounce timer of _schedulePersist *)
PersistTimer ==
    /\ _debounceTimer
    /\ Step(_persist([Cur EXCEPT !._debounceTimer = FALSE]))

ClearPersistedData ==
    /\ storage # << >>
    /\ Step(clearPersisted(Cur))

Next ==
    \/ OnAdd
    \/ \E id \in OverlayIds, f \in BOOLEAN : ShowOverlay(id, f)
    \/ \E id \in OverlayIds, f \in BOOLEAN : HideOverlay(id, f)
    \/ \E id \in OverlayIds, u \in BOOLEAN : ActivateOverlay(id, u)
    \/ \E id \in OverlayIds, v \in OpacityInputs : SetOverlayOpacity(id, v)
    \/ \E g \in GroupIds, v \in BOOLEAN : SetGroupVisibility(g, v)
    \/ \E g \in GroupIds, v \in OpacityInputs : SetGroupOpacity(g, v)
    \/ \E b \in BaseIds : SetBaseLayer(b)
    \/ StyleReady
    \/ \E z \in ZoomLevels : ZoomEnd(z)
    \/ \E i \in DOMAIN options.overlays, f \in BOOLEAN, k \in CacheOps :
          \E c \in LoaderResults(options.overlays[i]) : LoaderResolve(options.overlays[i].id, f, c, k)
    \/ \E id \in OverlayIds, f \in BOOLEAN : LoaderReject(id, f)

Spec == Init /\ [][Next]_vars

(* Overlays added and removed at run time *)
AddOverlay(overlayConfig, fireCallback) ==
    LET r == LayersControl_addOverlay(Cur, overlayConfig, fireCallback)
    IN /\ Len(r.st.options.overlays) <= MaxOverlays
       /\ Step(r.st)

RemoveOverlay(id, fireCallback) ==
    /\ Has(options.overlays, id)
    /\ Step(LayersControl_removeOverlay(Cur, id, fireCallback).st)

NextConfig ==
    \/ OnAdd
    \/ \E c \in AddedConfigs, f \in BOOLEAN : AddOverlay(c, f)
    \/ \E id \in OverlayIds, f \in BOOLEAN : RemoveOverlay(id, f)
    \/ \E id \in OverlayIds : ShowOverlay(id, FALSE)
    \/ \E id \in OverlayIds : HideOverlay(id, FALSE)
    \/ StyleReady

(* a control constructed with overlays a and b *)
InitConfig == Init /\ options.baseStyles = << Osm >>

SpecConfig == InitConfig /\ [][NextConfig]_vars

(* Clients of the EventEmitter *)
app == << map, zoom, state, options, deckOverlay, deckLayers, overlayToLayerIds,
          loadingStates, errorStates, zoomFilteredOverlays, overlayCache, pending,
          styleQueue, restoreTimers, persistenceKey, _debounceTimer, storage >>

Subscribed(events, event) == IF event \in DOMAIN events THEN Len(events[event]) ELSE 0

On(event, h) ==
    /\ Subscribed(on(_events, event, Direct(h)), event) <= MaxListeners
    /\ _events' = on(_events, event, Direct(h))
    /\ UNCHANGED << app, dispatch >>

Once(event, h) ==
    /\ Subscribed(_events, event) < MaxListeners
    /\ _events' = once(_events, event, h)
    /\ UNCHANGED << app, dispatch >>

Off(event, h) ==
    /\ _events' = off(_events, event, Direct(h))
    /\ UNCHANGED << app, dispatch >>

RemoveAllListeners(event) ==
    /\ _events' = removeAllListeners(_events, event)
    /\ UNCHANGED << app, dispatch >>

Emit(event) ==
    LET r == EventEmitter_emit(_events, event)
    IN /\ _events' = r.events
       /\ dispatch' = [event |-> event, calls |-> r.calls, thrown |-> r.thrown]
       /\ UNCHANGED app

NextEmitter ==
    \/ \E event \in Topics, h \in Handlers : On(event, h)
    \/ \E event \in Topics, h \in Handlers : Once(event, h)
    \/ \E event \in Topics, h \in Handlers : Off(event, h)
    \/ \E event \in Topics \cup {NoId} : RemoveAllListeners(event)
    \/ \E event \in Topics : Emit(event)

(* the emitter of a control that has not been added to a map *)
InitEmitter == Init /\ options.baseStyles = << Osm >>

SpecEmitter == InitEmitter /\ [][NextEmitter]_vars

NextPersist ==
    \/ OnAdd
    \/ \E id \in OverlayIds \cup {"ghost"}, f \in BOOLEAN : ShowOverlay(id, f)
    \/ \E id \in OverlayIds \cup {"ghost"}, f \in BOOLEAN : HideOverlay(id, f)
    \/ StyleReady
    \/ RestoreTimer
    \/ PersistTimer
    \/ ClearPersistedData
    \/ \E i \in DOMAIN options.overlays, f \in BOOLEAN :
          \E c \in LoaderResults(options.overlays[i]) : LoaderResolve(options.overlays[i].id, f, c, "none")
    \/ \E id \in OverlayIds, f \in BOOLEAN : LoaderReject(id, f)

SpecPersist == InitPersist /\ [][NextPersist]_vars

-----------------------------------------------------------------------------
(* Vocabulary of the properties *)

Configured == Ids(options.overlays)

Config(id) == Find(options.overlays, id)

Quiet(s) == [s EXCEPT !.emitted = << >>]

PendingOf(s, id) == s.pending[<< id, TRUE >>] + s.pending[<< id, FALSE >>]

(* every layer id that can be built from the layer specs of an overlay *)
AllLayerIdsOf(overlay) ==
    Ids(overlay.deckLayers) \cup UNION { Ids(l) : l \in overlay.onCheckedResults }

(* none of the overlay's layers is live or committed *)
NoLayerOf(s, id) ==
    /\ AllLayerIdsOf(Config(id)) \cap DOMAIN s.deckLayers = {}
    /\ AllLayerIdsOf(Config(id)) \cap DOMAIN s.deckOverlay.layers = {}

ZoomFilterEvent(id, filtered) == [topic |-> "zoomfilter", id |-> id, filtered |-> filtered]

-----------------------------------------------------------------------------
(* C1: if the visible flag of an overlay was set to false while its loader *)
(* is pending, then when the loader resolves nothing is materialized: the  *)
(* overlay owns no render layers and none of its layers is live or         *)
(* committed.                                                              *)
C1_HiddenOverlayLoaderResolvesToNothing ==
    \A id \in Configured, f \in BOOLEAN, k \in CacheOps :
        \A c \in LoaderResults(Config(id)) :
            (pending[<< id, f >>] > 0 /\ ~IsVisible(Cur, id) /\ NoLayerOf(Cur, id))
            => LET r == OnCheckedResolved(Cur, id, f, c, k)
               IN OwnedLayerIds(r, id) = << >> /\ NoLayerOf(r, id)

(* C2: every layer id in overlayToLayerIds has a live entry in deckLayers. *)
C2_OwnedLayersAreLive ==
    \A id \in DOMAIN overlayToLayerIds :
        \A i \in DOMAIN overlayToLayerIds[id] :
            overlayToLayerIds[id][i] \in DOMAIN deckLayers

(* C3: every live render layer is owned by exactly one overlay.            *)
C3_LiveLayersHaveOneOwner ==
    \A l \in DOMAIN deckLayers :
        Cardinality({ id \in DOMAIN overlayToLayerIds :
                        l \in Range(overlayToLayerIds[id]) }) = 1

(* C4: after hideOverlay(id) on a visible overlay with no loader pending,  *)
(* none of the layers built from the overlay's layer specs is live or      *)
(* committed.                                                              *)
C4_HideRemovesEveryLayer ==
    \A id \in Configured, f \in BOOLEAN :
        (map /\ IsVisible(Cur, id) /\ PendingOf(Cur, id) = 0)
        => NoLayerOf(hideOverlay(Cur, id, f), id)

(* C5: deactivation is idempotent.  hideOverlay and deactivateOverlay      *)
(* applied twice give the state they give applied once, the second call    *)
(* publishes nothing, hiding an overlay that is not visible changes        *)
(* nothing, and after a deactivation the overlay owns no layer and is      *)
(* neither zoom-filtered nor loading.                                      *)
Deactivated(s, id) ==
    /\ id \notin DOMAIN s.overlayToLayerIds
    /\ id \notin s.zoomFilteredOverlays
    /\ ~IsLoading(s, id)

C5_DeactivateIdempotent ==
    \A id \in Configured, f \in BOOLEAN :
        LET h1 == hideOverlay(Cur, id, f)
            h2 == hideOverlay(Quiet(h1), id, f)
            d1 == _deactivateOverlay(Cur, id)
            d2 == _deactivateOverlay(d1, id)
        IN /\ h2 = Quiet(h1)
           /\ d2 = d1
           /\ Deactivated(d1, id)
           /\ ~IsVisible(h1, id)
           /\ IsVisible(Cur, id) => Deactivated(h1, id)
           /\ ~IsVisible(Cur, id) => h1 = Cur

C5_Witness ==
    /\ map
    /\ \E id \in Configured :
          /\ ~IsVisible(Cur, id)
          /\ id \in DOMAIN loadingStates
          /\ Deactivated(Cur, id)
          /\ \E other \in Configured : other # id /\ other \in DOMAIN overlayToLayerIds

(* C6: deactivating A removes exactly the layer ids A owns: every other    *)
(* live layer and every other overlay's owned list is unchanged; A's       *)
(* zoom-filtered and loading flags are cleared; the cache is preserved.    *)
DeactivationFrame(s, r, id) ==
    /\ DOMAIN r.deckLayers = DOMAIN s.deckLayers \ Range(OwnedLayerIds(s, id))
    /\ \A l \in DOMAIN r.deckLayers : r.deckLayers[l] = s.deckLayers[l]
    /\ DOMAIN r.overlayToLayerIds = DOMAIN s.overlayToLayerIds \ {id}
    /\ \A o \in DOMAIN r.overlayToLayerIds : r.overlayToLayerIds[o] = s.overlayToLayerIds[o]
    /\ r.zoomFilteredOverlays = s.zoomFilteredOverlays \ {id}
    /\ ~IsLoading(r, id)
    /\ \A o \in (DOMAIN s.loadingStates) \ {id} : r.loadingStates[o] = s.loadingStates[o]
    /\ r.overlayCache = s.overlayCache
    /\ r.deckOverlay.exists => r.deckOverlay.layers = r.deckLayers

C6_DeactivateFrame ==
    \A id \in Configured, f \in BOOLEAN :
        /\ DeactivationFrame(Cur, _deactivateOverlay(Cur, id), id)
        /\ IsVisible(Cur, id) => DeactivationFrame(Cur, hideOverlay(Cur, id, f), id)

C6_Witness ==
    /\ ~IsVisible(Cur, "b")
    /\ "b" \in DOMAIN overlayCache
    /\ Deactivated(Cur, "b")
    /\ NoLayerOf(Cur, "b")
    /\ IsVisible(Cur, "a")
    /\ "a" \in DOMAIN overlayToLayerIds
    /\ Range(overlayToLayerIds["a"]) = {"a1", "a2"}
    /\ {"a1", "a2"} \subseteq DOMAIN deckOverlay.layers

(* C7: activate(x, true) called twice in a row on an overlay without a     *)
(* loader leaves one set of layers for x: when the zoom is in range x's    *)
(* owned list is the list of its layer specs, without a duplicate, and     *)
(* each of these layers is live and committed; when x is zoom-filtered the *)
(* two calls materialize nothing.                                          *)
C7_DoubleActivateOneLayerSet ==
    \A x \in Configured :
        (map /\ ~Config(x).onChecked /\ IsVisible(Cur, x))
        => LET r1 == _activateOverlay(Cur, x, TRUE, FALSE)
               r2 == _activateOverlay(r1, x, TRUE, FALSE)
           IN /\ NoDuplicates(OwnedLayerIds(r2, x))
              /\ _checkZoomConstraints(r2, Config(x)) =>
                    /\ OwnedLayerIds(r2, x) = IdList(Config(x).deckLayers)
                    /\ Range(OwnedLayerIds(r2, x)) \subseteq DOMAIN r2.deckLayers
                    /\ r2.deckOverlay.layers = r2.deckLayers
              /\ ~_checkZoomConstraints(r2, Config(x)) =>
                    /\ r2.deckLayers = Cur.deckLayers
                    /\ r2.overlayToLayerIds = Cur.overlayToLayerIds

C7_Witness ==
    /\ IsVisible(Cur, "c")
    /\ getCurrentBase(Cur) = "sat"
    /\ styleQueue # << >>
    /\ "c" \in DOMAIN overlayToLayerIds
    /\ overlayToLayerIds["c"] = << "c1" >>
    /\ "c1" \in DOMAIN deckOverlay.layers

(* C8: showOverlay on an overlay whose visible flag is already true        *)
(* changes nothing: no loader is invoked, the registry and the ownership   *)
(* mapping are unchanged and no event is published.                        *)
C8_ShowVisibleIsNoop ==
    \A id \in Configured, f \in BOOLEAN :
        IsVisible(Cur, id) => showOverlay(Cur, id, f) = Cur

C8_Witness ==
    /\ IsVisible(Cur, "b")
    /\ PendingOf(Cur, "b") = 0
    /\ "b" \in DOMAIN overlayToLayerIds
    /\ overlayToLayerIds["b"] = << "b1", "b2" >>
    /\ {"b1", "b2"} \subseteq DOMAIN deckLayers

(* C9: an overlay is filtered out exactly when zoom < min or zoom >= max   *)
(* (a missing bound imposes no constraint), activation and zoom            *)
(* re-evaluation set the zoom-filtered flag by this same rule, and for     *)
(* {min: 5, max: 10} zoom 5.0 and 9.999 are visible, 10.0 and 4.999 are    *)
(* filtered.                                                               *)
ZoomProbes == {0, 4999, 5000, 5001, 9999, 10000, 10001, 22000}

FilteredOut(z, min, max) ==
    (min # Undefined /\ z < min) \/ (max # Undefined /\ z >= max)

RangeOverlay == [OverlayA EXCEPT !.filter = [minZoom |-> 5000, maxZoom |-> 10000]]

C9_ZoomPredicate ==
    map =>
    /\ \A z \in ZoomProbes :
          LET s == [Cur EXCEPT !.zoom = z]
          IN /\ \A id \in Configured :
                  LET f == _getFilterConfig(Config(id))
                      out == FilteredOut(z, f.minZoom, f.maxZoom)
                  IN /\ _checkZoomConstraints(s, Config(id)) = ~out
                     /\ (id \in _updateZoomFiltering(s, id).zoomFilteredOverlays) = out
                     /\ IsVisible(s, id) =>
                           (id \in updateAllZoomFiltering(s).zoomFilteredOverlays) = out
             /\ \A min \in {Undefined, 5000}, max \in {Undefined, 10000} :
                  _checkZoomConstraints(s, [OverlayA EXCEPT !.filter = [minZoom |-> min, maxZoom |-> max]])
                     = ~FilteredOut(z, min, max)
    /\ _checkZoomConstraints([Cur EXCEPT !.zoom = 5000], RangeOverlay)
    /\ _checkZoomConstraints([Cur EXCEPT !.zoom = 9999], RangeOverlay)
    /\ ~_checkZoomConstraints([Cur EXCEPT !.zoom = 10000], RangeOverlay)
    /\ ~_checkZoomConstraints([Cur EXCEPT !.zoom = 4999], RangeOverlay)

C9_Witness ==
    /\ zoom = 9999
    /\ IsVisible(Cur, "a") /\ "a" \notin zoomFilteredOverlays
    /\ {"a1", "a2"} \subseteq DOMAIN deckLayers
    /\ IsVisible(Cur, "b") /\ "b" \notin zoomFilteredOverlays

(* C10: when activation reaches the zoom check with the zoom outside the   *)
(* overlay's range, the overlay is marked zoom-filtered, exactly           *)
(* zoomfilter{id, filtered: true} is published, no layer is materialized,  *)
(* the loader is not invoked and the visible flag stays as it is (true     *)
(* after showOverlay).                                                     *)
FilteredActivation(s, r, id) ==
    /\ id \in r.zoomFilteredOverlays
    /\ r.deckLayers = s.deckLayers
    /\ r.overlayToLayerIds = s.overlayToLayerIds
    /\ r.pending = s.pending
    /\ r.options = s.options
    /\ r.overlayCache = s.overlayCache
    /\ ~IsLoading(r, id)

-----------------------------------------------------------------------------
(* C11: on a zoom re-evaluation, a visible overlay that was filtered and   *)
(* is now in range has the layers of its layer specs live again and        *)
(* zoomfilter{filtered: false} is published once for it; a visible overlay *)
(* that was not filtered and is now out of range has none of them live and *)
(* zoomfilter{filtered: true} is published once; an overlay whose          *)
(* predicate did not change, or whose visible flag is false, keeps its     *)
(* flag and its layers and no event names it; nothing else is published.   *)
Count(seq, ev) == Cardinality({ i \in DOMAIN seq : seq[i] = ev })

OutOfRange(s, id) ==
    LET f == _getFilterConfig(Find(s.options.overlays, id))
    IN FilteredOut(s.zoom, f.minZoom, f.maxZoom)

BecomesVisible(s, id) == IsVisible(s, id) /\ id \in s.zoomFilteredOverlays /\ ~OutOfRange(s, id)

BecomesFiltered(s, id) == IsVisible(s, id) /\ id \notin s.zoomFilteredOverlays /\ OutOfRange(s, id)

ZoomReevaluation(s, r, id) ==
    LET overlay == Find(s.options.overlays, id)
        specIds == Ids(overlay.deckLayers)
    IN /\ BecomesVisible(s, id) =>
            /\ id \notin r.zoomFilteredOverlays
            /\ specIds \subseteq DOMAIN r.deckLayers
            /\ \A l \in specIds : r.deckLayers[l] = [id |-> l, opacity |-> OpacityOf(s, id)]
            /\ r.deckOverlay.exists => specIds \subseteq DOMAIN r.deckOverlay.layers
            /\ Count(r.emitted, ZoomFilterEvent(id, FALSE)) = 1
            /\ Count(r.emitted, ZoomFilterEvent(id, TRUE)) = 0
       /\ BecomesFiltered(s, id) =>
            /\ id \in r.zoomFilteredOverlays
            /\ specIds \cap DOMAIN r.deckLayers = {}
            /\ specIds \cap DOMAIN r.deckOverlay.layers = {}
            /\ Count(r.emitted, ZoomFilterEvent(id, TRUE)) = 1
            /\ Count(r.emitted, ZoomFilterEvent(id, FALSE)) = 0
       /\ (~BecomesVisible(s, id) /\ ~BecomesFiltered(s, id)) =>
            /\ (id \in r.zoomFilteredOverlays) = (id \in s.zoomFilteredOverlays)
            /\ \A l \in AllLayerIdsOf(overlay) :
                  /\ (l \in DOMAIN r.deckLayers) = (l \in DOMAIN s.deckLayers)
                  /\ l \in DOMAIN s.deckLayers => r.deckLayers[l] = s.deckLayers[l]
            /\ Count(r.emitted, ZoomFilterEvent(id, TRUE)) = 0
            /\ Count(r.emitted, ZoomFilterEvent(id, FALSE)) = 0

C11_ZoomReevaluation ==
    map =>
    \A z \in ZoomLevels :
        LET s == [Cur EXCEPT !.zoom = z]
            r == updateAllZoomFiltering(s)
            moved == { id \in Configured : BecomesVisible(s, id) \/ BecomesFiltered(s, id) }
        IN /\ \A id \in Configured : ZoomReevaluation(s, r, id)
           /\ Len(r.emitted) = Cardinality(moved)
           /\ \A i \in DOMAIN r.emitted : r.emitted[i].topic = "zoomfilter"
           /\ r.state = s.state /\ r.options = s.options /\ r.pending = s.pending
           /\ moved = {} => r = s

(* a visible overlay is back in range with its layers live, which only     *)
(* the re-evaluation does without recording an owner *)
C11_Witness ==
    /\ IsVisible(Cur, "a")
    /\ "a" \notin zoomFilteredOverlays
    /\ {"a1", "a2"} \subseteq DOMAIN deckLayers
    /\ "a" \notin DOMAIN overlayToLayerIds

-----------------------------------------------------------------------------
(* C12: an activation that invokes the loader publishes loading{id} and    *)
(* nothing else before the loader settles; when the loader resolves        *)
(* exactly one success{id} and no error is published, and when it rejects  *)
(* exactly one error{id} and no success is published.                      *)
Terminal(seq, topic, id) ==
    Cardinality({ i \in DOMAIN seq : seq[i].topic = topic /\ seq[i].id = id })

C12_LoadingThenOneTerminal ==
    /\ \A id \in Configured, u \in BOOLEAN :
          (IsVisible(Cur, id) /\ ActivationAwaits(Cur, id, u)) =>
              _activateOverlay(Cur, id, u, FALSE).emitted = << [topic |-> "loading", id |-> id] >>
    /\ \A id \in Configured, f \in BOOLEAN :
          pending[<< id, f >>] > 0 =>
              /\ \A c \in LoaderResults(Config(id)), k \in CacheOps :
                    LET r == OnCheckedResolved(Cur, id, f, c, k)
                    IN Terminal(r.emitted, "success", id) = 1 /\ Terminal(r.emitted, "error", id) = 0
              /\ LET r == OnCheckedRejected(Cur, id, f)
                 IN Terminal(r.emitted, "error", id) = 1 /\ Terminal(r.emitted, "success", id) = 0

-----------------------------------------------------------------------------
(* C13: when the loader rejects, the awaiting caller goes on normally      *)
(* (showOverlay still publishes its overlaychange), no render layer is     *)
(* created (live registry, ownership and committed layers are unchanged),  *)
(* the loading flag is cleared, the error is recorded, the state store     *)
(* (so the visible flag) is unchanged and the cache is unchanged.          *)
LoaderFailure(s, r, id) ==
    /\ r.deckLayers = s.deckLayers
    /\ r.overlayToLayerIds = s.overlayToLayerIds
    /\ r.deckOverlay = s.deckOverlay
    /\ ~IsLoading(r, id)
    /\ id \in DOMAIN r.errorStates
    /\ r.state = s.state
    /\ r.options = s.options
    /\ r.overlayCache = s.overlayCache
    /\ PendingOf(r, id) = PendingOf(s, id) - 1

C13_LoaderFailureStops ==
    \A id \in Configured, f \in BOOLEAN :
        pending[<< id, f >>] > 0 =>
            LET r == OnCheckedRejected(Cur, id, f)
            IN /\ LoaderFailure(Cur, r, id)
               /\ f => r.emitted[Len(r.emitted)] =
                          [topic |-> "change", type |-> "overlaychange", id |-> id,
                           visible |-> TRUE, opacity |-> OpacityOf(Cur, id)]

(* the loader of a visible overlay has failed: the error is recorded, the  *)
(* overlay is not loading, owns nothing and its cache entry is still there *)
C13_Witness ==
    /\ "b" \in DOMAIN errorStates
    /\ IsVisible(Cur, "b")
    /\ ~IsLoading(Cur, "b")
    /\ "b" \notin DOMAIN overlayToLayerIds
    /\ "b" \in DOMAIN overlayCache
    /\ PendingOf(Cur, "b") = 0

-----------------------------------------------------------------------------
-----------------------------------------------------------------------------
(* C15: a user-initiated activation of a visible overlay whose forced base *)
(* exists in the configuration and differs from the active base creates no *)
(* render layer and invokes no loader itself, makes the forced id the      *)
(* active base and registers the style-ready continuation; once the        *)
(* registered continuations have run the overlay owns the layers of its    *)
(* layer specs exactly once, all live and committed.                       *)
RECURSIVE Drain(_)
Drain(s) == IF s.styleQueue = << >> THEN s ELSE Drain(StyleDataContinuation(s))

ForcedBaseCase(s, id) ==
    /\ IsVisible(s, id)
    /\ Config(id).forcedBaseLayerId # NoId
    /\ Has(s.options.baseStyles, Config(id).forcedBaseLayerId)
    /\ getCurrentBase(s) # Config(id).forcedBaseLayerId

ActivatedOnce(s, id) ==
    /\ OwnedLayerIds(s, id) = IdList(Config(id).deckLayers)
    /\ NoDuplicates(OwnedLayerIds(s, id))
    /\ Range(OwnedLayerIds(s, id)) \subseteq DOMAIN s.deckLayers
    /\ s.deckOverlay.exists
    /\ s.deckOverlay.layers = s.deckLayers

C15_ForcedBaseActivation ==
    map =>
    \A id \in Configured, t \in BOOLEAN :
        ForcedBaseCase(Cur, id) =>
            LET r == _activateOverlay(Cur, id, TRUE, t)
                done == Drain(r)
            IN /\ r.deckLayers = EmptyMap
               /\ r.overlayToLayerIds = EmptyMap
               /\ r.pending = pending
               /\ Terminal(r.emitted, "loading", id) = 0
               /\ getCurrentBase(r) = Config(id).forcedBaseLayerId
               /\ r.styleQueue = Append(styleQueue, Config(id).forcedBaseLayerId)
               /\ ~IsLoading(r, id)
               /\ (Config(id).hasDeckLayers /\ ~Config(id).onChecked /\ ~OutOfRange(done, id))
                     => ActivatedOnce(done, id)

(* the forced base is active, its continuation has run and the overlay     *)
(* that forced it owns its layer once *)
C15_Witness ==
    /\ getCurrentBase(Cur) = "sat"
    /\ styleQueue = << >>
    /\ IsVisible(Cur, "c")
    /\ ~IsVisible(Cur, "d")
    /\ overlayToLayerIds = [o \in {"c"} |-> << "c1" >>]
    /\ DOMAIN deckLayers = {"c1"}
    /\ deckOverlay.exists /\ DOMAIN deckOverlay.layers = {"c1"}

-----------------------------------------------------------------------------
(* C16: setBaseLayer with a configured id empties the live registry and    *)
(* the ownership map at once and registers one continuation.  When the     *)
(* continuation runs, every overlay whose visible flag is true is          *)
(* activated with isUserInteraction = false (in range: its loader is       *)
(* invoked once, or, without loader, it owns its layers; out of range: it  *)
(* is marked filtered and zoomfilter is published), no overlay whose flag  *)
(* is false is touched, and styleload{baseId} and its change event are the *)
(* last events published.                                                  *)
Naming(seq, id) ==
    Cardinality({ i \in DOMAIN seq : seq[i].topic \in {"loading", "zoomfilter", "success", "error"}
                                      /\ seq[i].id = id })

Restored(s, r, id) ==
    IF OutOfRange(s, id)
    THEN /\ id \in r.zoomFilteredOverlays
         /\ Count(r.emitted, ZoomFilterEvent(id, TRUE)) = 1
         /\ PendingOf(r, id) = PendingOf(s, id)
         /\ (id \in DOMAIN r.overlayToLayerIds) = (id \in DOMAIN s.overlayToLayerIds)
    ELSE IF Config(id).onChecked
    THEN /\ PendingOf(r, id) = PendingOf(s, id) + 1
         /\ r.pending[<< id, FALSE >>] = s.pending[<< id, FALSE >>] + 1
         /\ Terminal(r.emitted, "loading", id) = 1
         /\ Naming(r.emitted, id) = 1
    ELSE /\ Config(id).hasDeckLayers =>
               /\ OwnedLayerIds(r, id) = IdList(Config(id).deckLayers)
               /\ Range(OwnedLayerIds(r, id)) \subseteq DOMAIN r.deckLayers
               /\ Range(OwnedLayerIds(r, id)) \subseteq DOMAIN r.deckOverlay.layers
         /\ PendingOf(r, id) = PendingOf(s, id)
         /\ Naming(r.emitted, id) = 0

Untouched(s, r, id) ==
    /\ PendingOf(r, id) = PendingOf(s, id)
    /\ OwnedLayerIds(r, id) = OwnedLayerIds(s, id)
    /\ AllLayerIdsOf(Config(id)) \cap DOMAIN r.deckLayers = AllLayerIdsOf(Config(id)) \cap DOMAIN s.deckLayers
    /\ (id \in r.zoomFilteredOverlays) = (id \in s.zoomFilteredOverlays)
    /\ IsLoading(r, id) = IsLoading(s, id)
    /\ Naming(r.emitted, id) = 0

C16_SwitchBaseRestoresVisible ==
    map =>
    /\ \A b \in Ids(options.baseStyles) :
          LET r == setBaseLayer(Cur, b)
          IN /\ r.deckLayers = EmptyMap
             /\ r.overlayToLayerIds = EmptyMap
             /\ r.deckOverlay = [exists |-> FALSE, layers |-> EmptyMap]
             /\ r.styleQueue = Append(styleQueue, b)
             /\ Count(r.emitted, [topic |-> "styleload", baseId |-> b]) = 0
    /\ styleQueue # << >> =>
          LET r == StyleDataContinuation(Cur)
              n == Len(r.emitted)
          IN /\ \A id \in Configured :
                   IF IsVisible(Cur, id) THEN Restored(Cur, r, id) ELSE Untouched(Cur, r, id)
             /\ r.state = state
             /\ r.styleQueue = Tail(styleQueue)
             /\ r.deckOverlay.exists
             /\ n >= 2
             /\ r.emitted[n - 1] = [topic |-> "styleload", baseId |-> Head(styleQueue)]
             /\ r.emitted[n] = [topic |-> "change", type |-> "styleload", baseId |-> Head(styleQueue)]
             /\ \A i \in 1..(n - 2) : r.emitted[i].topic \in {"loading", "zoomfilter"}

(* after a switch to the second base its continuation has run: the overlay *)
(* that is visible owns its layer, the hidden one has nothing *)
C16_Witness ==
    /\ getCurrentBase(Cur) = "sat"
    /\ styleQueue = << >>
    /\ IsVisible(Cur, "d") /\ ~IsVisible(Cur, "c")
    /\ overlayToLayerIds = [o \in {"d"} |-> << "d1" >>]
    /\ DOMAIN deckLayers = {"d1"}
    /\ deckOverlay.exists /\ DOMAIN deckOverlay.layers = {"d1"}

-----------------------------------------------------------------------------
(* C17: a base switch is issued while a visible overlay is in the middle   *)
(* of an activation (its loader is pending) and the continuation of the    *)
(* switch has not run yet.  Whatever the order in which the continuation   *)
(* and the loaders then run, and whatever layer lists the loaders supply,  *)
(* at the end the overlay owns the layers of its layer specs exactly once, *)
(* they are live and committed to the composite created by the last        *)
(* continuation, and the active base is the one requested last.            *)
BaseSwitchRace(s, id) ==
    /\ s.map
    /\ s.styleQueue # << >>
    /\ IsVisible(s, id)
    /\ PendingOf(s, id) > 0
    /\ Find(s.options.overlays, id).onChecked
    /\ ~OutOfRange(s, id)

LayersOnce(s, id) ==
    LET overlay == Find(s.options.overlays, id)
    IN /\ s.styleQueue = << >>
       /\ PendingOf(s, id) = 0
       /\ ~IsLoading(s, id)
       /\ s.deckOverlay.exists
       /\ IF overlay.hasDeckLayers
          THEN /\ OwnedLayerIds(s, id) = IdList(overlay.deckLayers)
               /\ NoDuplicates(OwnedLayerIds(s, id))
               /\ Range(OwnedLayerIds(s, id)) \subseteq DOMAIN s.deckLayers
               /\ Range(OwnedLayerIds(s, id)) \subseteq DOMAIN s.deckOverlay.layers
               /\ \A l \in Range(OwnedLayerIds(s, id)) : s.deckOverlay.layers[l] = s.deckLayers[l]
          ELSE OwnedLayerIds(s, id) = << >>

-----------------------------------------------------------------------------
(* C18: setBaseLayer with the id of the base that is already active        *)
(* changes nothing: no event is published, the render layers are not torn  *)
(* down and no style swap (with its continuation) is issued.               *)
C18_SameBaseIsNoop ==
    map =>
    \A b \in Ids(options.baseStyles) :
        b = getCurrentBase(Cur) => setBaseLayer(Cur, b) = Cur

-----------------------------------------------------------------------------
(* C19: every public operation that is given an overlay, group or base id  *)
(* the configuration does not have (showOverlay, hideOverlay,              *)
(* setOverlayOpacity, removeOverlay, showGroup, hideGroup,                 *)
(* setGroupOpacity, setBaseLayer, removeBaseStyle) returns false and       *)
(* leaves the whole state as it was, with no event published.              *)
UnknownIds == {"a", "b", "c", "d", "g", "h", "osm", "sat", "zzz"}

C19_UnknownIdRefused ==
    /\ \A id \in UnknownIds \ Configured, f \in BOOLEAN, v \in OpacityInputs :
          /\ LayersControl_showOverlay(Cur, id, f) = Refused(Cur)
          /\ LayersControl_hideOverlay(Cur, id, f) = Refused(Cur)
          /\ LayersControl_setOverlayOpacity(Cur, id, v) = Refused(Cur)
          /\ LayersControl_removeOverlay(Cur, id, f) = Refused(Cur)
    /\ \A id \in UnknownIds, v \in OpacityInputs :
          ~HasGroup(Cur, id) =>
              /\ LayersControl_showGroup(Cur, id) = Refused(Cur)
              /\ LayersControl_hideGroup(Cur, id) = Refused(Cur)
              /\ LayersControl_setGroupOpacity(Cur, id, v) = Refused(Cur)
    /\ \A id \in UnknownIds \ Ids(options.baseStyles) :
          /\ LayersControl_setBaseLayer(Cur, id) = Refused(Cur)
          /\ LayersControl_removeBaseStyle(Cur, id) = Refused(Cur)

(* overlays are visible with live layers and a loader is pending while the *)
(* configuration has no overlay "c" and no group "g" *)
C19_Witness ==
    /\ "c" \notin Configured
    /\ ~HasGroup(Cur, "g")
    /\ IsVisible(Cur, "a")
    /\ DOMAIN deckLayers # {}
    /\ PendingOf(Cur, "b") > 0

-----------------------------------------------------------------------------
(* C20: setGroupVisibility(g, true): when no member of g has its visible   *)
(* flag set, every member gets the flag and is activated; otherwise the    *)
(* members whose flag is set are activated and a member whose flag is not  *)
(* set keeps it unset and gains no render layer (its layers, ownership,    *)
(* pending loaders and flags are as before).  Overlays outside the group   *)
(* are not touched.                                                        *)
Members(s, id) == { o \in Ids(s.options.overlays) : Find(s.options.overlays, o).group = id }

GroupTurnedOn(s, r, g) ==
    LET members == Members(s, g)
        noneVisible == \A o \in members : ~IsVisible(s, o)
    IN /\ \A o \in members :
             IF noneVisible \/ IsVisible(s, o)
             THEN IsVisible(r, o) /\ Restored(s, r, o)
             ELSE ~IsVisible(r, o) /\ Untouched(s, r, o)
       /\ \A o \in Ids(s.options.overlays) \ members :
             IsVisible(r, o) = IsVisible(s, o) /\ Untouched(s, r, o)
       /\ r.state.groups[g].visible
       /\ r.state.base = s.state.base
       /\ r.options = s.options

C20_GroupTurnOn ==
    map =>
    \A g \in GroupIds :
        HasGroup(Cur, g) => GroupTurnedOn(Cur, setGroupVisibility(Cur, g, TRUE), g)

(* the group is on and only the member that was visible has been           *)
(* activated: the other one is still hidden and has no layer *)
C20_Witness ==
    /\ "g" \in DOMAIN state.groups /\ state.groups["g"].visible
    /\ IsVisible(Cur, "c") /\ ~IsVisible(Cur, "d")
    /\ OwnedLayerIds(Cur, "c") = << "c1" >>
    /\ "d1" \notin DOMAIN deckLayers
    /\ "d" \notin DOMAIN overlayToLayerIds

-----------------------------------------------------------------------------
(* C21: when a group in which some member is visible is turned off and     *)
(* then on again, the members that were visible before are visible again   *)
(* and the members that were hidden stay hidden and own no render layer.   *)
C21_GroupOffOnRestoresSelection ==
    map =>
    \A g \in GroupIds :
        (HasGroup(Cur, g) /\ \E o \in Members(Cur, g) : IsVisible(Cur, o)) =>
            LET turnedOff == Quiet(setGroupVisibility(Cur, g, FALSE))
                turnedOn == setGroupVisibility(turnedOff, g, TRUE)
            IN \A o \in Members(Cur, g) :
                  /\ IsVisible(turnedOn, o) = IsVisible(Cur, o)
                  /\ ~IsVisible(Cur, o) => OwnedLayerIds(turnedOn, o) = << >>

-----------------------------------------------------------------------------
(* C22: setGroupVisibility(g, false) clears the visible flag of every      *)
(* member of g and deactivates it, whatever its state was: afterwards no   *)
(* member owns a render layer or is marked filtered or loading, exactly    *)
(* the layers the members owned have left the live registry, and the       *)
(* visible flag of the group is false.                                     *)
RECURSIVE OwnedBy(_, _)
OwnedBy(s, ids) ==
    IF ids = {} THEN {}
    ELSE LET o == CHOOSE x \in ids : TRUE
         IN Range(OwnedLayerIds(s, o)) \cup OwnedBy(s, ids \ {o})

GroupTurnedOff(s, r, g) ==
    /\ \A o \in Members(s, g) : ~IsVisible(r, o) /\ Has(r.state.overlays, o) /\ Deactivated(r, o)
    /\ DOMAIN r.deckLayers = DOMAIN s.deckLayers \ OwnedBy(s, Members(s, g))
    /\ r.deckOverlay.exists => r.deckOverlay.layers = r.deckLayers
    /\ ~r.state.groups[g].visible
    /\ \A o \in Ids(s.options.overlays) \ Members(s, g) :
          IsVisible(r, o) = IsVisible(s, o) /\ OwnedLayerIds(r, o) = OwnedLayerIds(s, o)

C22_GroupTurnOff ==
    map =>
    \A g \in GroupIds :
        HasGroup(Cur, g) => GroupTurnedOff(Cur, setGroupVisibility(Cur, g, FALSE), g)

(* the group was turned off: its flag is false, its members are hidden,    *)
(* deactivated and own nothing, after they had state *)
C22_Witness ==
    /\ "g" \in DOMAIN state.groups /\ ~state.groups["g"].visible
    /\ ~IsVisible(Cur, "c") /\ ~IsVisible(Cur, "d")
    /\ "c" \in DOMAIN loadingStates /\ "d" \in DOMAIN loadingStates
    /\ overlayToLayerIds = EmptyMap
    /\ deckOverlay.exists

-----------------------------------------------------------------------------
(* C23: a setGroupVisibility(g, v) call publishes overlaygroupchange{g, v} *)
(* exactly once and an overlaychange for every member overlay whose        *)
(* visible flag it changes.                                                *)
C23_GroupChangeEvents ==
    map =>
    \A g \in GroupIds, v \in BOOLEAN :
        HasGroup(Cur, g) =>
            LET r == setGroupVisibility(Cur, g, v)
            IN /\ Count(r.emitted, [topic |-> "overlaygroupchange", id |-> g, visible |-> v]) = 1
               /\ \A o \in Members(Cur, g) :
                     IsVisible(r, o) # IsVisible(Cur, o) => Terminal(r.emitted, "overlaychange", o) >= 1

-----------------------------------------------------------------------------
(* C24: setOverlayOpacity(id, v) stores min(1, max(0, v)) (in tenths:      *)
(* 15 is stored as 10, -2 as 0), setGroupOpacity(g, v) stores the same     *)
(* value for the group and for each of its members, and every opacity in   *)
(* the state store lies within [0, 1].                                     *)
OpacityProbes == {-20, -2, 0, 3, 10, 11, 15, 100}

Min(x, y) == IF x < y THEN x ELSE y

Max(x, y) == IF x > y THEN x ELSE y

C24_OpacityClamped ==
    /\ \A id \in Configured, v \in OpacityProbes :
          OpacityOf(setOverlayOpacity(Cur, id, v), id) = Min(10, Max(0, v))
    /\ \A g \in GroupIds, v \in OpacityProbes :
          HasGroup(Cur, g) =>
              LET r == setGroupOpacity(Cur, g, v)
              IN /\ r.state.groups[g].opacity = Min(10, Max(0, v))
                 /\ \A o \in Members(Cur, g) : OpacityOf(r, o) = Min(10, Max(0, v))
    /\ OpacityOf(setOverlayOpacity(Cur, "a", 15), "a") = 10
    /\ OpacityOf(setOverlayOpacity(Cur, "a", -2), "a") = 0
    /\ \A i \in DOMAIN state.overlays : state.overlays[i].opacity \in 0..10
    /\ \A g \in DOMAIN state.groups : state.groups[g].opacity \in 0..10

(* an opacity above 1 was set on an overlay whose default is 0.5 *)
C24_Witness ==
    /\ Has(state.overlays, "a")
    /\ Config("a").defaultOpacity = 5
    /\ OpacityOf(Cur, "a") = 10

-----------------------------------------------------------------------------
(* C25: setOverlayOpacity(id, v) always stores the clamped opacity.  When  *)
(* the overlay is visible, each live layer it owns is replaced by a layer  *)
(* with the same id and the new opacity, every other live layer is as it   *)
(* was, no layer is added or removed, and the collection is recommitted;   *)
(* when it is not visible the live registry and the committed collection   *)
(* are unchanged.  Ownership never changes.                                *)
OpacityFrame(s, r, id, v) ==
    LET owned == Range(OwnedLayerIds(s, id))
    IN /\ OpacityOf(r, id) = Min(10, Max(0, v))
       /\ \A o \in Ids(s.state.overlays) \ {id} :
             OpacityOf(r, o) = OpacityOf(s, o) /\ IsVisible(r, o) = IsVisible(s, o)
       /\ IsVisible(r, id) = IsVisible(s, id)
       /\ r.overlayToLayerIds = s.overlayToLayerIds
       /\ IF IsVisible(s, id)
          THEN /\ DOMAIN r.deckLayers = DOMAIN s.deckLayers
               /\ \A l \in DOMAIN s.deckLayers :
                     r.deckLayers[l] = IF l \in owned
                                       THEN [id |-> l, opacity |-> Min(10, Max(0, v))]
                                       ELSE s.deckLayers[l]
               /\ (r.deckOverlay.exists /\ id \in DOMAIN s.overlayToLayerIds)
                     => r.deckOverlay.layers = r.deckLayers
          ELSE r.deckLayers = s.deckLayers /\ r.deckOverlay = s.deckOverlay

C25_OpacityFrame ==
    \A id \in Configured, v \in OpacityProbes :
        OpacityFrame(Cur, setOverlayOpacity(Cur, id, v), id, v)

(* the layers of a visible overlay carry an opacity that was set, next to  *)
(* the layers of another overlay that kept theirs *)
C25_Witness ==
    /\ IsVisible(Cur, "a") /\ OpacityOf(Cur, "a") = 10
    /\ OwnedLayerIds(Cur, "a") = << "a1", "a2" >>
    /\ {"a1", "a2", "b1"} \subseteq DOMAIN deckLayers
    /\ deckLayers["a1"].opacity = 10 /\ deckLayers["a2"].opacity = 10
    /\ deckOverlay.exists /\ deckOverlay.layers = deckLayers


-----------------------------------------------------------------------------
(* Restoring a persisted item that names an overlay the configuration does *)
(* not declare.                                                            *)

(* ids with a state entry but no configuration *)
StaleIds(s) == Ids(s.state.overlays) \ Ids(s.options.overlays)

(* nothing records an activation of the overlay *)
NoActivationEffect(s, id) ==
    /\ id \notin DOMAIN s.overlayToLayerIds
    /\ id \notin DOMAIN s.loadingStates
    /\ id \notin DOMAIN s.errorStates
    /\ id \notin s.zoomFilteredOverlays
    /\ id \notin DOMAIN s.overlayCache

(* the control is on the map and every step _restoreMapState scheduled has run *)
RestoreCompleted(s) == s.map /\ s.styleQueue = << >> /\ s.restoreTimers = << >>

(* C26: once the restore of a persisted item naming an overlay id absent   *)
(* from the configuration has completed, no activation side effect exists  *)
(* for that id and the next persisted write does not contain the id.       *)
C26_GhostIdDropped ==
    RestoreCompleted(Cur) =>
        /\ \A id \in StaleIds(Cur) : NoActivationEffect(Cur, id)
        /\ \A id \in {"ghost"} :
              LET r == _persist(Cur)
              IN r.storage # << >> /\ id \notin Ids(r.storage[1].overlays)

(* the part of C26 that the code keeps: no activation side effect *)
C26_NoGhostActivation ==
    map => \A id \in StaleIds(Cur) : NoActivationEffect(Cur, id)


-----------------------------------------------------------------------------
(* StateService.initOverlay *)

(* the fields of an overlay configuration that initOverlay reads *)
InitConfigs == [defaultVisible : BOOLEAN, defaultOpacity : {Undefined, 0, 5}, group : {NoId, "g", "h"}]

InitIds == OverlayIds \cup {"ghost", "z"}

OthersKept(s, r, id) ==
    \A o \in Range(s.state.overlays) : o.id # id => Has(r.state.overlays, o.id) /\ Find(r.state.overlays, o.id) = o

InitOverlayContract(s, r, id, config) ==
    /\ [r EXCEPT !.state = s.state] = s
    /\ r.state.base = s.state.base
    /\ OthersKept(s, r, id)
    /\ Ids(r.state.overlays) = Ids(s.state.overlays) \cup {id}
    /\ IF Has(s.state.overlays, id)
       THEN r.state = s.state
       ELSE /\ Find(r.state.overlays, id).visible = config.defaultVisible
            /\ Find(r.state.overlays, id).opacity =
                  (IF config.defaultOpacity # Undefined THEN config.defaultOpacity ELSE 10)
            /\ IF config.defaultVisible /\ config.group # NoId /\ config.group \notin DOMAIN s.state.groups
               THEN /\ DOMAIN r.state.groups = DOMAIN s.state.groups \cup {config.group}
                    /\ r.state.groups[config.group] = [visible |-> TRUE, opacity |-> 10]
                    /\ \A g \in DOMAIN s.state.groups : r.state.groups[g] = s.state.groups[g]
               ELSE r.state.groups = s.state.groups

(* C27: initOverlay creates {visible: defaultVisible, opacity: defaultOpacity *)
(* or 1.0} only when the id has no state; an existing state (persisted or     *)
(* initialised earlier) is left unchanged, also by a later initOverlay with   *)
(* other defaults; a group without state is seeded {visible: true, opacity:   *)
(* 1.0} exactly when a visible overlay is initialised into it.                *)
C27_InitOverlay ==
    \A id \in InitIds, config \in InitConfigs :
        LET r == initOverlay(Cur, id, config)
        IN /\ InitOverlayContract(Cur, r, id, config)
           /\ \A later \in InitConfigs : initOverlay(r, id, later) = r

(* the persisted state of "a" survived onAdd although the configuration has *)
(* other defaults, and "b", which had no state, got its defaults            *)
C27_Witness ==
    /\ map
    /\ storage # << >> /\ Has(storage[1].overlays, "a")
    /\ Has(options.overlays, "a")
    /\ Find(state.overlays, "a") = [id |-> "a", visible |-> TRUE, opacity |-> 7]
    /\ Config("a").defaultVisible = FALSE /\ Config("a").defaultOpacity = 5
    /\ Find(state.overlays, "b") = [id |-> "b", visible |-> FALSE, opacity |-> 10]


-----------------------------------------------------------------------------
(* The umbrella change event *)

StateChangeTopics ==
    {"basechange", "overlaychange", "overlaygroupchange", "viewportchange", "styleload", "memorycleared"}

(* the change event that repeats the fields of a specific event *)
UmbrellaOf(ev) ==
    [f \in (DOMAIN ev \ {"topic"}) \cup {"topic", "type"} |->
        IF f = "topic" THEN "change" ELSE IF f = "type" THEN ev.topic ELSE ev[f]]

(* each specific event is directly followed by its change event, and no *)
(* other change event is published                                      *)
Accompanied(seq) ==
    /\ \A i \in DOMAIN seq :
          seq[i].topic \in StateChangeTopics => i < Len(seq) /\ seq[i + 1] = UmbrellaOf(seq[i])
    /\ \A i \in DOMAIN seq :
          seq[i].topic = "change" => i > 1 /\ seq[i] = UmbrellaOf(seq[i - 1])


(* what the public operations publish when called in state s *)
Publications(s) ==
    { LayersControl_showOverlay(s, id, TRUE).st.emitted : id \in OverlayIds } \cup
    { LayersControl_hideOverlay(s, id, TRUE).st.emitted : id \in OverlayIds } \cup
    { LayersControl_setOverlayOpacity(s, id, v).st.emitted : id \in OverlayIds, v \in OpacityInputs } \cup
    { LayersControl_setBaseLayer(s, b).st.emitted : b \in BaseIds } \cup
    { LayersControl_showGroup(s, g).st.emitted : g \in GroupIds } \cup
    { LayersControl_hideGroup(s, g).st.emitted : g \in GroupIds } \cup
    { LayersControl_setGroupOpacity(s, g, v).st.emitted : g \in GroupIds, v \in OpacityInputs } \cup
    { clearPersisted(s).emitted : x \in {1} } \cup
    { (IF s.styleQueue # << >> THEN StyleDataContinuation(s) ELSE s).emitted : x \in {1} }

RegistryPublications(s) ==
    { LayersControl_removeOverlay(s, id, TRUE).st.emitted : id \in OverlayIds } \cup
    { LayersControl_addOverlay(s, c, TRUE).st.emitted : c \in AddedConfigs }

(* C28: every basechange, overlaychange, overlaygroupchange, viewportchange, *)
(* styleload or memorycleared event that a public operation publishes is     *)
(* accompanied by one change event whose type names it and whose payload     *)
(* has the same fields.                                                      *)
C28_UmbrellaChange ==
    map => \A seq \in Publications(Cur) \cup RegistryPublications(Cur) : Accompanied(seq)

(* the operations other than addOverlay and removeOverlay do publish the pair *)
C28_PairedElsewhere ==
    map => \A seq \in Publications(Cur) : Accompanied(seq)


-----------------------------------------------------------------------------
(* The per-overlay cache and overlay removal *)

(* C29: removeOverlay(id) clears the cache entry of the overlay, so that an *)
(* overlay added again under the same id starts with an empty cache; apart  *)
(* from an explicit clear nothing else clears the entry.                    *)
C29_RemoveClearsCache ==
    \A id \in Configured, f \in BOOLEAN :
          LET removed == LayersControl_removeOverlay(Cur, id, f).st
              added == LayersControl_addOverlay(removed, Config(id), f).st
          IN /\ id \notin DOMAIN removed.overlayCache
             /\ id \notin DOMAIN added.overlayCache

(* the part of C29 that the code keeps: no step of the control in which the *)
(* loader does not call clearCache drops a cache entry                      *)
C29_CacheEntriesKept ==
    [][\A id \in DOMAIN overlayCache :
          id \in DOMAIN overlayCache' /\ overlayCache'[id] = overlayCache[id]]_vars


-----------------------------------------------------------------------------
(* EventEmitter.emit *)

Times(seq, x) == Cardinality({ i \in DOMAIN seq : seq[i] = x })

ListenersOf(events, event) == IF event \in DOMAIN events THEN events[event] ELSE << >>

(* C30: emit calls every listener subscribed to the event when emit is     *)
(* called, each exactly once and no other, also when listeners throw or    *)
(* unsubscribe others meanwhile; no exception reaches the caller of emit.  *)
C30_EmitInvokesAll ==
    /\ ~dispatch.thrown
    /\ \A event \in Topics \cup {"error"} :
          LET r == EventEmitter_emit(_events, event)
              subscribed == ListenersOf(_events, event)
          IN /\ ~r.thrown
             /\ \A l \in Range(subscribed) : Times(r.calls, l) = 1
             /\ Range(r.calls) \subseteq Range(subscribed)

(* an emit has called h3, which unsubscribed h1, then h2, which threw, and *)
(* then h1 all the same                                                    *)
C30_Witness ==
    /\ dispatch.event = "change"
    /\ dispatch.calls = << Direct("h3"), Direct("h2"), Direct("h1") >>
    /\ ~dispatch.thrown
    /\ ListenersOf(_events, "change") = << Direct("h3"), Direct("h2") >>


-----------------------------------------------------------------------------
(* Two activations of one overlay in flight *)

(* the overlay's loader is awaited once, and a second activation would *)
(* invoke it again                                                     *)
SecondActivationCase(s, id) ==
    /\ s.map /\ s.deckOverlay.exists
    /\ Config(id).onChecked
    /\ IsVisible(s, id)
    /\ ~OutOfRange(s, id)
    /\ PendingOf(s, id) = 1
    /\ AllLayerIdsOf(Config(id)) \cap DOMAIN s.deckLayers \subseteq Range(OwnedLayerIds(s, id))

(* the overlay owns one layer set, the one built from configuration c *)
OneLayerSet(r, id, last) ==
    LET overlay == Find(r.options.overlays, id)
    IN /\ PendingOf(r, id) = 0
       /\ ~IsLoading(r, id)
       /\ NoDuplicates(OwnedLayerIds(r, id))
       /\ Range(OwnedLayerIds(r, id)) \subseteq DOMAIN r.deckLayers
       /\ AllLayerIdsOf(Config(id)) \cap DOMAIN r.deckLayers = Range(OwnedLayerIds(r, id))
       /\ \A l \in Range(OwnedLayerIds(r, id)) :
             Cardinality({ o \in DOMAIN r.overlayToLayerIds :
                              l \in Range(r.overlayToLayerIds[o]) }) = 1
       /\ \A l \in Range(OwnedLayerIds(r, id)) :
             l \in DOMAIN r.deckOverlay.layers /\ r.deckOverlay.layers[l] = r.deckLayers[l]
       /\ overlay.hasDeckLayers => OwnedLayerIds(r, id) = IdList(overlay.deckLayers)
       /\ last.inject => OwnedLayerIds(r, id) = IdList(last.layers)

-----------------------------------------------------------------------------
(* Independence of overlays *)

(* the operations on one overlay that can run in state s *)
OverlayOps(s, id) ==
    { [kind |-> k, flag |-> f, result |-> [inject |-> FALSE, layers |-> << >>]] :
         k \in {"show", "hide", "activate"}, f \in BOOLEAN } \cup
    { [kind |-> "resolve", flag |-> f, result |-> c] :
         f \in { x \in BOOLEAN : s.pending[<< id, x >>] > 0 }, c \in LoaderResults(Config(id)) } \cup
    { [kind |-> "reject", flag |-> f, result |-> [inject |-> FALSE, layers |-> << >>]] :
         f \in { x \in BOOLEAN : s.pending[<< id, x >>] > 0 } }

Apply(s, id, op) ==
    CASE op.kind = "show" -> showOverlay(s, id, op.flag)
      [] op.kind = "hide" -> hideOverlay(s, id, op.flag)
      [] op.kind = "activate" -> IF IsVisible(s, id) THEN _activateOverlay(s, id, op.flag, FALSE) ELSE s
      [] op.kind = "resolve" -> OnCheckedResolved(s, id, op.flag, op.result, "set")
      [] op.kind = "reject" -> OnCheckedRejected(s, id, op.flag)

(* an activation that takes the forced base pre-step *)
SwitchesBase(s, id, op) ==
    /\ op.kind \in {"show", "activate"} /\ op.flag
    /\ (op.kind = "show" => ~IsVisible(s, id))
    /\ (op.kind = "activate" => IsVisible(s, id))
    /\ ForcedBaseApplies(s, Config(id), TRUE)

(* what the engine holds about one overlay *)
View(s, id) ==
    [ visible |-> IsVisible(s, id),
      opacity |-> OpacityOf(s, id),
      owned |-> OwnedLayerIds(s, id),
      live |-> [l \in AllLayerIdsOf(Find(s.options.overlays, id)) \cap DOMAIN s.deckLayers |-> s.deckLayers[l]],
      loading |-> IsLoading(s, id),
      error |-> IF id \in DOMAIN s.errorStates THEN s.errorStates[id] ELSE "",
      filtered |-> id \in s.zoomFilteredOverlays,
      cache |-> IF id \in DOMAIN s.overlayCache THEN s.overlayCache[id] ELSE "",
      awaited |-> PendingOf(s, id),
      config |-> Find(s.options.overlays, id) ]

Isolated(s, a, b, opA) ==
    LET ra == Apply(s, a, opA)
    IN /\ View(ra, b) = View(s, b)
       /\ \A opB \in OverlayOps(s, b) :
             View(Apply(ra, b, opB), b) = View(Apply(s, b, opB), b)

C32_SharedLayerId ==
    map =>
    \A a, b \in Configured :
        (a # b /\ Config(b).onChecked /\ IsVisible(Cur, b)) =>
            \A f \in { x \in BOOLEAN : pending[<< b, x >>] > 0 } :
                \A l \in Range(OwnedLayerIds(Cur, a)) :
                    LET shared == [inject |-> TRUE, layers |-> << LayerCfg(l) >>]
                        r == hideOverlay(OnCheckedResolved(Cur, b, f, shared, "none"), b, FALSE)
                    IN View(r, a).live = View(Cur, a).live


-----------------------------------------------------------------------------
(* The loading flag and pending loaders *)

(* the states an operation that does not deactivate overlay id can leave *)
WithoutDeactivation(s, id) ==
    { _activateOverlay(s, id, u, FALSE) : u \in BOOLEAN } \cup
    { updateAllZoomFiltering([s EXCEPT !.zoom = z]) : z \in ZoomLevels } \cup
    { setBaseLayer(s, b) : b \in BaseIds } \cup
    { setOverlayOpacity(s, id, v) : v \in OpacityInputs } \cup
    { IF s.styleQueue # << >> THEN StyleDataContinuation(s) ELSE s : x \in {1} } \cup
    UNION { { Apply(s, o, op) : op \in OverlayOps(s, o) } : o \in Configured \ {id} }

(* C33: while a loader invocation of an overlay is pending and the overlay *)
(* has not been deactivated since, the overlay is in loading state; once   *)
(* every loader invocation of the overlay has resolved or rejected, its    *)
(* loading flag is false.                                                  *)
C33_LoadingWhilePending ==
    map =>
    \A id \in Configured :
        /\ (PendingOf(Cur, id) > 0 /\ IsLoading(Cur, id)) =>
              \A r \in WithoutDeactivation(Cur, id) :
                  PendingOf(r, id) > 0 => IsLoading(r, id)
        /\ PendingOf(Cur, id) = 0 => ~IsLoading(Cur, id)

(* the part of C33 that the code keeps: no loader awaited, not loading *)
C33_SettledNotLoading ==
    \A id \in Configured : PendingOf(Cur, id) = 0 => ~IsLoading(Cur, id)


-----------------------------------------------------------------------------
(* Configuration errors *)

(* what a caller may pass to the constructor *)
GivenOptions ==
    [ baseStyles : { [isArray |-> TRUE, items |-> << Osm >>], [isArray |-> FALSE, items |-> << >>] },
      overlays : { [isArray |-> TRUE, items |-> << OverlayA, OverlayB >>],
                   [isArray |-> TRUE, items |-> << OverlayA, OverlayA >>],
                   [isArray |-> TRUE, items |-> << [OverlayD EXCEPT !.id = NoId] >>],
                   [isArray |-> FALSE, items |-> << >>] } ]

Malformed(overlays) ==
    \/ \E i \in DOMAIN overlays : overlays[i].id = NoId
    \/ ~NoDuplicates(IdList(overlays))

-----------------------------------------------------------------------------
(* Zoom re-evaluation and activation *)

InRange(s, id, z) == _checkZoomConstraints([s EXCEPT !.zoom = z], Find(s.options.overlays, id))

(* C35: for an overlay with static layer specs, activating it while the   *)
(* zoom is out of range and then moving the zoom into range (with the     *)
(* re-evaluation that follows) reaches the same live layers, the same     *)
(* ownership mapping and the same zoom-filtered flag as moving the zoom   *)
(* into range first and activating then.                                  *)
C35_ReevaluationLikeActivation ==
    map =>
    \A id \in Configured, z \in ZoomLevels :
        (~Config(id).onChecked /\ ~IsVisible(Cur, id) /\ OutOfRange(Cur, id) /\ InRange(Cur, id, z)) =>
            LET activateFirst == updateAllZoomFiltering([showOverlay(Cur, id, FALSE) EXCEPT !.zoom = z])
                zoomFirst == showOverlay(updateAllZoomFiltering([Cur EXCEPT !.zoom = z]), id, FALSE)
            IN /\ activateFirst.deckLayers = zoomFirst.deckLayers
               /\ activateFirst.overlayToLayerIds = zoomFirst.overlayToLayerIds
               /\ (id \in activateFirst.zoomFilteredOverlays) = (id \in zoomFirst.zoomFilteredOverlays)

(* the part of C35 that the code keeps: the live layers and the flag agree *)
C35_SameLiveLayers ==
    map =>
    \A id \in Configured, z \in ZoomLevels :
        (~Config(id).onChecked /\ ~IsVisible(Cur, id) /\ OutOfRange(Cur, id) /\ InRange(Cur, id, z)) =>
            LET activateFirst == updateAllZoomFiltering([showOverlay(Cur, id, FALSE) EXCEPT !.zoom = z])
                zoomFirst == showOverlay(updateAllZoomFiltering([Cur EXCEPT !.zoom = z]), id, FALSE)
            IN /\ activateFirst.deckLayers = zoomFirst.deckLayers
               /\ (id \in activateFirst.zoomFilteredOverlays) = (id \in zoomFirst.zoomFilteredOverlays)


-----------------------------------------------------------------------------
(* Zoom-filtered overlays and the live registry *)

(* the layer ids of an overlay: the ones it owns and the ones it configures *)
LayersOfOverlay(s, id) ==
    Range(OwnedLayerIds(s, id)) \cup
    (IF Has(s.options.overlays, id) THEN Ids(Find(s.options.overlays, id).deckLayers) ELSE {})

(* C36: an overlay that is zoom-filtered has none of its layers in the    *)
(* live registry or in the committed collection, also when the zoom left  *)
(* the range while its loader was pending and the loader resolved later.  *)
C36_FilteredHasNoLiveLayers ==
    \A id \in zoomFilteredOverlays :
        /\ LayersOfOverlay(Cur, id) \cap DOMAIN deckLayers = {}
        /\ deckOverlay.exists => LayersOfOverlay(Cur, id) \cap DOMAIN deckOverlay.layers = {}


-----------------------------------------------------------------------------
(* Restoring the visible overlays when the control is added *)

(* the activations of an overlay that onAdd has left to run: one by each  *)
(* registered styledata continuation if the overlay is stored visible,    *)
(* one by each 200 ms timer of _restoreMapState                           *)
ScheduledActivations(r, id) ==
    (IF IsVisible(r, id) THEN Len(r.styleQueue) ELSE 0) + Count(r.restoreTimers, id)

RECURSIVE RunRestoreTimers(_)
RunRestoreTimers(s) ==
    IF s.restoreTimers = << >> THEN s
    ELSE RunRestoreTimers(_activateOverlay([s EXCEPT !.restoreTimers = Tail(@)],
                                           Head(s.restoreTimers), FALSE, FALSE))

(* the control after the continuation and the timers of onAdd have run *)
Initialised(r) ==
    RunRestoreTimers(IF r.styleQueue # << >> THEN StyleDataContinuation(r) ELSE r)

-----------------------------------------------------------------------------
(* Opacity of the live layers *)

(* no loader is pending and no styledata continuation is registered *)
NothingInProgress == styleQueue = << >> /\ \A id \in OverlayIds : PendingOf(Cur, id) = 0

(* the layers of an overlay: the ones it owns and the ones its specs name *)
BelongsTo(s, id) ==
    Range(OwnedLayerIds(s, id)) \cup AllLayerIdsOf(Find(s.options.overlays, id))

(* C38: whenever no operation is in progress, every live render layer     *)
(* that belongs to an overlay carries the opacity stored for the overlay. *)
C38_LiveLayersCarryStoredOpacity ==
    NothingInProgress =>
    \A id \in Configured :
        \A l \in BelongsTo(Cur, id) \cap DOMAIN deckLayers :
            deckLayers[l].opacity = OpacityOf(Cur, id)

(* C38 for the layers recorded in overlayToLayerIds only *)
C38_OwnedLayersCarryStoredOpacity ==
    NothingInProgress =>
    \A id \in Configured :
        \A l \in Range(OwnedLayerIds(Cur, id)) \cap DOMAIN deckLayers :
            deckLayers[l].opacity = OpacityOf(Cur, id)


-----------------------------------------------------------------------------
(* overlaychange after a loader has settled *)

OverlayChangesFor(emitted, id) ==
    SelectSeq(emitted, LAMBDA e : e.topic = "overlaychange" /\ e.id = id)

(* the settlements of a pending loader of the overlay *)
Settlements(s, id) ==
    { OnCheckedResolved(s, id, f, c, "none") :
          f \in { x \in BOOLEAN : s.pending[<< id, x >>] > 0 }, c \in LoaderResults(Config(id)) } \cup
    { OnCheckedRejected(s, id, f) : f \in { x \in BOOLEAN : s.pending[<< id, x >>] > 0 } }

(* C39: when the last pending loader of an overlay settles, the last      *)
(* overlaychange published for the overlay reports its stored visible     *)
(* flag, also when showOverlay(id, true) and hideOverlay(id, true) were   *)
(* called while the loader was pending.                                   *)
C39_LastOverlayChangeIsCurrent ==
    \A id \in Configured :
        \A r \in Settlements(Cur, id) :
            LET changes == OverlayChangesFor(r.emitted, id)
            IN (PendingOf(r, id) = 0 /\ changes # << >>) =>
                   changes[Len(changes)].visible = IsVisible(r, id)


-----------------------------------------------------------------------------
(* clearPersisted and the debounced write *)

(* C40: after clearPersisted has removed the item, the write that a       *)
(* mutation made before the clear has scheduled does not create the item  *)
(* again: the item stays absent until the state is changed once more.     *)
C40_ClearedStaysAbsent ==
    (persistenceKey /\ _debounceTimer) =>
        LET cleared == clearPersisted(Cur)
        IN /\ cleared.storage = << >>
           /\ cleared._debounceTimer =>
                  _persist([cleared EXCEPT !._debounceTimer = FALSE]).storage = << >>

====
